---- MODULE Spec2Model ----
(***************************************************************************)
(* Model of habluetooth's scanner base classes                             *)
(* (src/habluetooth/base_scanner.py, models.py).                           *)
(*                                                                         *)
(* Python values are represented as follows:                               *)
(*   str            a sequence of one-character strings (so len() is Len)  *)
(*   bytes          a sequence of small naturals                           *)
(*   Optional[T]    a set with at most one element: None is {}, x is {x}   *)
(*   dict           a function whose DOMAIN is the set of keys             *)
(*   list           a sequence                                             *)
(*   float seconds  a natural number of time units                         *)
(***************************************************************************)
EXTENDS Integers, Sequences, FiniteSets, TLC

(***************************************************************************)
(* Bounds of the model.                                                    *)
(***************************************************************************)
\* advertisement timestamps range over 0..MaxTime
MaxTime == 2
\* number of callers that may hold a connecting() block open at once
MaxAttempts == 2
\* the monotonic clock runs over 0..MaxNow
MaxNow == 3
\* persisted timestamps run over 0..MaxWall, the wall clock reads MaxWall - 1
MaxWall == 4

(***************************************************************************)
(* Python value helpers.                                                   *)
(***************************************************************************)
None == {}
Some(x) == {x}
Val(o) == CHOOSE x \in o : TRUE
\* Python truthiness of an Optional[str]: None and "" are falsy
Truthy(o) == o # None /\ Val(o) # <<>>
EmptyDict == <<>>
Range(s) == {s[i] : i \in DOMAIN s}
\* {**b, **a}: the operands of DictMerge swapped, a's value on a shared key
DictMerge_PrevWins(a, b) == [k \in (DOMAIN a) \cup (DOMAIN b) |->
                      IF k \in DOMAIN a THEN a[k] ELSE b[k]]
\* {**a, **b}: the keys of both, b's value on a shared key
DictMerge(a, b) == [k \in (DOMAIN a) \cup (DOMAIN b) |->
                      IF k \in DOMAIN b THEN b[k] ELSE a[k]]
\* every order in which list(set) may enumerate the set S
ListsOfSet(S) == {s \in [1..Cardinality(S) -> S] : Range(s) = S}

(***************************************************************************)
(* The values advertisements are built from.                               *)
(***************************************************************************)
SOURCE == <<"s", "c", "1">>
Addr1 == <<"A", "1">>
Addr2 == <<"A", "2">>
Addresses == {Addr1, Addr2}
NameT == <<"T">>
NameS == <<"S">>
NameTe == <<"T", "e">>
EmptyStr == <<>>
LocalNames == {None, Some(EmptyStr), Some(NameT), Some(NameS), Some(NameTe)}
Uuids == {"180d", "180f"}
UuidLists == {<<>>} \cup {<<u>> : u \in Uuids} \cup {<<u, v>> : u, v \in Uuids}
BytesX == <<1>>
BytesY == <<2, 3>>
ServiceDatas == {EmptyDict} \cup {[k \in {"180d"} |-> b] : b \in {BytesX, BytesY}}
                \cup {[k \in {"180f"} |-> BytesX]}
                \cup {[k \in {"180d", "180f"} |-> IF k = "180d" THEN b ELSE BytesX] :
                        b \in {BytesX, BytesY}}
ManufacturerDatas == {EmptyDict} \cup {[k \in {76} |-> b] : b \in {BytesX, BytesY}}
                \cup {[k \in {89} |-> BytesX]}
                \cup {[k \in {76, 89} |-> IF k = 76 THEN b ELSE BytesX] :
                        b \in {BytesX, BytesY}}
DetailsMaps == {EmptyDict} \cup {[k \in {"path"} |-> p] : p \in {"hci0", "hci1"}}
Rssis == {-50, -60}
TxPowers == {None, Some(4)}
Times == 0..MaxTime

\* BaseHaScanner.connectable, fixed at construction
Connectable == FALSE
\* const.SCANNER_WATCHDOG_TIMEOUT, in time units of the model
SCANNER_WATCHDOG_TIMEOUT == 1
\* const.CONNECTABLE_FALLBACK_MAXIMUM_STALE_ADVERTISEMENT_SECONDS, the value
\* of BaseHaRemoteScanner._expire_seconds, in time units of the model
EXPIRE_SECONDS == 2
ClockTimes == 0..MaxNow
\* BaseHaRemoteScanner._details
BaseDetails == [k \in {"source"} |-> SOURCE]

\* the arguments of one call of _async_on_advertisement
Advertisement(address, rssi, local_name, service_uuids, service_data, manufacturer_data, tx_power, details, time) ==
    [address |-> address, rssi |-> rssi, local_name |-> local_name,
     service_uuids |-> service_uuids, service_data |-> service_data,
     manufacturer_data |-> manufacturer_data, tx_power |-> tx_power,
     details |-> details, time |-> time]

\* an advertisement that carries nothing but its address
BareAdv(address) ==
    Advertisement(address, -50, None, <<>>, EmptyDict, EmptyDict, None, EmptyDict, 0)

\* advertisements that vary the local name and the latest-wins fields; one
\* for a second address
NameAdvs ==
    {[BareAdv(Addr1) EXCEPT !.local_name = n, !.rssi = r, !.tx_power = p, !.time = t] :
        n \in LocalNames, r \in Rssis, p \in TxPowers, t \in Times}
    \cup {[BareAdv(Addr2) EXCEPT !.local_name = Some(NameT), !.time = MaxTime]}

\* advertisements that vary one container of a bare advertisement each, and
\* two complete advertisements
DataAdvs ==
    {[BareAdv(Addr1) EXCEPT !.service_uuids = u] : u \in UuidLists}
    \cup {[BareAdv(Addr1) EXCEPT !.service_data = d] : d \in ServiceDatas}
    \cup {[BareAdv(Addr1) EXCEPT !.manufacturer_data = d] : d \in ManufacturerDatas}
    \cup {[BareAdv(Addr1) EXCEPT !.details = d] : d \in DetailsMaps}
    \cup {Advertisement(Addr1, -60, Some(NameTe), <<"180d">>,
                        [k \in {"180d"} |-> BytesX], [k \in {76} |-> BytesY],
                        Some(4), [k \in {"path"} |-> "hci0"], 1),
          Advertisement(Addr2, -60, Some(NameT), <<"180f">>,
                        [k \in {"180f"} |-> BytesX], EmptyDict,
                        None, EmptyDict, MaxTime)}

\* advertisements of the scanner lifecycle: either address, any timestamp
LifeAdvs ==
    {[BareAdv(a) EXCEPT !.local_name = n, !.time = t] :
        a \in Addresses, n \in {None, Some(NameT)}, t \in Times}

\* advertisements of the watchdog specification: one address, any timestamp
WatchAdvs == {[BareAdv(Addr1) EXCEPT !.time = t] : t \in ClockTimes}

VARIABLES
    index,           \* BaseHaRemoteScanner._previous_service_info
    scanning,        \* BaseHaScanner.scanning
    connecting,      \* BaseHaScanner._connecting
    last_detection,  \* BaseHaScanner._last_detection
    attempts,        \* per caller: "idle", or "body" inside `with connecting():`
    delivered,       \* history: the advertisement the last step delivered, if any
    prev_info,       \* history: prev_info of that call (the generation it replaced)
    now,             \* monotonic_time_coarse()
    start_time,      \* BaseHaScanner._start_time
    cancel_watchdog, \* BaseHaScanner._cancel_watchdog: None, or a timer handle
    cancel_track,    \* BaseHaRemoteScanner._cancel_track: None, or a timer handle
    watchdog_timers, \* event loop: pending calls of _async_call_scanner_watchdog
    expire_timers,   \* event loop: pending calls of _async_expire_devices_schedule_next
    op,              \* history: the call the last step made, "none" for the others
    stall,           \* history: phase "stalled" since a watchdog tick found the
                     \* scanner quiet at .time, "recovered" once the next
                     \* advertisement (timestamp .time) followed, else "no"
    set_up,          \* history: async_setup was called and its teardown was not
    before,          \* history: the index before the last expiry pass or restore
    restored,        \* history: the snapshot the last step restored, if any
    data_by_scanner, \* the persisted collection, scanner key -> snapshot dict
    wall_now,        \* time.time()
    log,             \* what the last storage call logged
    argument,        \* history: the input of the last storage call, if any
    result,          \* history: what the last step's from_dict or serialize
                     \* returned; None for a None and for the other steps
    saved,           \* history: the snapshot data_by_scanner[SOURCE] is the
                     \* to_dict image of, if any
    manager,         \* the coordinator: "ok", or "faulty" when its
                     \* scanner_adv_received may raise
    notified,        \* history: the records the last step passed to
                     \* scanner_adv_received, in order
    raised,          \* history: the call of the last step raised
    connectable_info, \* history: what the last step's _as_connectable returned
    prev_generation, \* history: the record object the last merge replaced, as
                     \* it is after the call
    expired          \* history: per address without a record before the last
                     \* step, what the record held that the expiry timer
                     \* removed last

timerVars == <<now, start_time, cancel_watchdog, cancel_track, watchdog_timers, expire_timers>>

histVars == <<delivered, prev_info, op, stall, set_up, before, restored, notified, raised,
             connectable_info, prev_generation, expired>>

storeVars == <<data_by_scanner, wall_now, log, argument, result, saved>>

vars == <<index, scanning, connecting, last_detection, attempts, manager, timerVars, histVars, storeVars>>

\* a step of the scanner leaves the persisted collection alone
StoreFrame ==
    /\ log' = {}
    /\ argument' = None
    /\ result' = None
    /\ UNCHANGED <<data_by_scanner, wall_now, saved>>

\* a step that is no advertisement notifies nobody and makes no variant
QuietFrame ==
    /\ notified' = <<>>
    /\ connectable_info' = None
    /\ prev_generation' = None
    /\ UNCHANGED manager

\* the notification with the record the call replaced
Notify_Previous ==
    /\ notified' = IF prev_info' = None THEN <<>> ELSE <<Val(prev_info')>>
    /\ raised' \in IF manager = "faulty" THEN BOOLEAN ELSE {FALSE}
    /\ UNCHANGED manager

\* self._manager.scanner_adv_received(info), the last statement of
\* _async_on_advertisement: an exception of the coordinator leaves the call
Notify ==
    /\ notified' = <<index'[Val(delivered').address]>>
    /\ raised' \in IF manager = "faulty" THEN BOOLEAN ELSE {FALSE}
    /\ UNCHANGED manager

\* what a delivered advertisement leaves alone, and what it records
\* no stall is being followed
Quiet == [phase |-> "no", time |-> 0]

\* the previous record object after a merge that updated its service data
\* and manufacturer data in place
PrevGeneration_InPlace(prev, info) ==
    IF prev = None THEN None
    ELSE Some([Val(prev) EXCEPT !.device = info.device,
                                !.service_data = info.service_data,
                                !.manufacturer_data = info.manufacturer_data])

\* the previous record object after the call: info.device = prev_info.device
\* is the one BLEDevice both records refer to, and the merge assigns to no
\* attribute of prev_info and mutates none of its containers
PrevGeneration(prev, info) ==
    IF prev = None THEN None
    ELSE Some([Val(prev) EXCEPT !.device = info.device])

AdvFrame ==
    /\ StoreFrame
    /\ Notify
    /\ connectable_info' = None
    /\ prev_generation' = PrevGeneration(prev_info', index'[Val(delivered').address])
    /\ expired' = [a \in DOMAIN expired \ DOMAIN index |-> expired[a]]
    /\ op' = "none"
    /\ stall' = IF stall.phase = "stalled"
                THEN [phase |-> "recovered", time |-> Val(delivered').time]
                ELSE Quiet
    /\ before' = None
    /\ restored' = None
    /\ UNCHANGED <<timerVars, set_up>>

\* what entering and leaving connecting() leave alone
GateFrame ==
    /\ StoreFrame
    /\ op' = "none"
    /\ before' = None
    /\ restored' = None
    /\ UNCHANGED <<timerVars, stall, set_up>>

Callers == 1..MaxAttempts

(***************************************************************************)
(* _dict_subset(super_dict, sub_dict)                                      *)
(***************************************************************************)
_dict_subset(super_dict, sub_dict) ==
    \A key \in DOMAIN sub_dict :
        key \in DOMAIN super_dict /\ super_dict[key] = sub_dict[key]

(***************************************************************************)
(* BLEDevice(address, name, details, rssi)                                 *)
(***************************************************************************)
BLEDevice(address, name, details, rssi) ==
    [address |-> address, name |-> name, details |-> details, rssi |-> rssi]

(***************************************************************************)
(* The merge of _async_on_advertisement, one definition per block of the   *)
(* else branch.  A `same_*' argument says that the incoming object IS the  *)
(* previous one (Python `is'), which the caller decides.                   *)
(***************************************************************************)
\* KeepPrevName without the length comparison: any non-empty incoming name
\* is adopted
KeepPrevName_AnyIncoming(prev_name, local_name, same_name) ==
    /\ prev_name # None
    /\ \/ same_name
       \/ ~Truthy(local_name)

\* lines 452-456: the condition under which the previous name is kept
KeepPrevName(prev_name, local_name, same_name) ==
    /\ prev_name # None
    /\ \/ same_name
       \/ ~Truthy(local_name)
       \/ Len(Val(prev_name)) > Len(Val(local_name))

\* lines 457-460: info.name
MergedName(prev_name, local_name, address, same_name) ==
    IF KeepPrevName(prev_name, local_name, same_name)
    THEN Val(prev_name)
    ELSE IF Truthy(local_name) THEN Val(local_name) ELSE address

\* lines 437-459: info.device, the previous BLEDevice updated in place
MergedDevice(prev_device, adv, same_name) ==
    [[k \in DOMAIN prev_device \cup {"rssi"} |->
         IF k = "rssi" THEN adv.rssi ELSE prev_device[k]] EXCEPT
        !.details = DictMerge(@, adv.details),
        !.rssi = adv.rssi,
        !.name = IF KeepPrevName(prev_device.name, adv.local_name, same_name)
                 THEN @ ELSE adv.local_name]

\* MergedServiceUuids without the union: a non-empty incoming list replaces
\* the previous one
MergedServiceUuids_Incoming(prev_uuids, service_uuids, same_uuids) ==
    IF service_uuids = <<>> THEN {prev_uuids} ELSE {service_uuids}

\* lines 462-472: the lists info.service_uuids may become
MergedServiceUuids(prev_uuids, service_uuids, same_uuids) ==
    IF service_uuids # <<>> /\ ~same_uuids /\ service_uuids # prev_uuids
    THEN ListsOfSet(Range(service_uuids) \cup Range(prev_uuids))
    ELSE IF service_uuids = <<>> THEN {prev_uuids} ELSE {service_uuids}

\* MergedServiceData without the merge: a non-empty incoming map replaces the
\* previous one
MergedServiceData_Incoming(prev_data, service_data, same_data) ==
    IF service_data = EmptyDict THEN prev_data ELSE service_data

\* lines 474-486: info.service_data
MergedServiceData(prev_data, service_data, same_data) ==
    IF service_data # EmptyDict /\ ~same_data
    THEN IF _dict_subset(prev_data, service_data)
         THEN prev_data
         ELSE DictMerge(prev_data, service_data)
    ELSE IF service_data = EmptyDict THEN prev_data ELSE service_data

\* MergedManufacturerData without the merge: a non-empty incoming map
\* replaces the previous one
MergedManufacturerData_Incoming(prev_data, manufacturer_data, same_data) ==
    IF manufacturer_data = EmptyDict THEN prev_data ELSE manufacturer_data

\* lines 488-503: info.manufacturer_data
MergedManufacturerData(prev_data, manufacturer_data, same_data) ==
    IF manufacturer_data # EmptyDict /\ ~same_data
    THEN IF _dict_subset(prev_data, manufacturer_data)
         THEN prev_data
         ELSE DictMerge(prev_data, manufacturer_data)
    ELSE IF manufacturer_data = EmptyDict THEN prev_data ELSE manufacturer_data

\* lines 505-511: the fields every advertisement sets, first sighting or not
WithLatest(fields, adv) ==
    [name |-> fields.name, device |-> fields.device,
     service_uuids |-> fields.service_uuids,
     service_data |-> fields.service_data,
     manufacturer_data |-> fields.manufacturer_data,
     address |-> adv.address, rssi |-> adv.rssi, source |-> SOURCE,
     advertisement |-> None, connectable |-> Connectable,
     time |-> adv.time, tx_power |-> adv.tx_power]

\* the first sighting without the address as fallback name
FirstSighting_NoFallback(adv) ==
    WithLatest(
        [device |-> BLEDevice(adv.address, adv.local_name,
                              DictMerge(BaseDetails, adv.details), adv.rssi),
         manufacturer_data |-> adv.manufacturer_data,
         service_data |-> adv.service_data,
         service_uuids |-> adv.service_uuids,
         name |-> IF Truthy(adv.local_name) THEN Val(adv.local_name)
                  ELSE EmptyStr], adv)

\* lines 419-432: no previous record for the address
FirstSighting(adv) ==
    WithLatest(
        [device |-> BLEDevice(adv.address, adv.local_name,
                              DictMerge(BaseDetails, adv.details), adv.rssi),
         manufacturer_data |-> adv.manufacturer_data,
         service_data |-> adv.service_data,
         service_uuids |-> adv.service_uuids,
         name |-> IF Truthy(adv.local_name) THEN Val(adv.local_name)
                  ELSE adv.address], adv)

\* which incoming objects may be the very objects the previous record holds:
\* only ones of equal value
Identities(prev, adv) ==
    {idn \in [name : BOOLEAN, uuids : BOOLEAN, sd : BOOLEAN, md : BOOLEAN] :
        /\ idn.name => prev.device.name = adv.local_name
        /\ idn.uuids => prev.service_uuids = adv.service_uuids
        /\ idn.sd => prev.service_data = adv.service_data
        /\ idn.md => prev.manufacturer_data = adv.manufacturer_data}

\* lines 433-511: the records a merge onto prev may produce
Merged(prev, adv) ==
    UNION {
      {WithLatest(
          [device |-> MergedDevice(prev.device, adv, idn.name),
           name |-> MergedName(prev.device.name, adv.local_name, adv.address, idn.name),
           service_uuids |-> uuids,
           service_data |-> MergedServiceData(prev.service_data, adv.service_data, idn.sd),
           manufacturer_data |->
               MergedManufacturerData(prev.manufacturer_data, adv.manufacturer_data, idn.md)],
          adv) :
        uuids \in MergedServiceUuids(prev.service_uuids, adv.service_uuids, idn.uuids)} :
      idn \in Identities(prev, adv)}

\* lines 417-511: the records the handler may store for adv, given the record
\* (if any) the index holds for its address
Fused(prev, adv) ==
    IF prev = None THEN {FirstSighting(adv)} ELSE Merged(Val(prev), adv)

\* self._previous_service_info.get(address)
Lookup(idx, address) ==
    IF address \in DOMAIN idx THEN Some(idx[address]) ELSE None

\* self._previous_service_info[address] = info
Store(idx, address, info) ==
    [a \in (DOMAIN idx) \cup {address} |-> IF a = address THEN info ELSE idx[a]]

\* _async_on_advertisement ignoring an advertisement older than the record
OnAdvertisement_DropStale(adv) ==
    /\ scanning' = (connecting = 0)
    /\ last_detection' = adv.time
    /\ IF adv.address \in DOMAIN index /\ adv.time < index[adv.address].time
       THEN index' = index
       ELSE \E info \in Fused(Lookup(index, adv.address), adv) :
               index' = Store(index, adv.address, info)
    /\ prev_info' = Lookup(index, adv.address)
    /\ delivered' = Some(adv)
    /\ AdvFrame
    /\ UNCHANGED <<connecting, attempts>>

\* _async_on_advertisement without the liveness signal of lines 415-416
OnAdvertisement_NoDetection(adv) ==
    /\ \E info \in Fused(Lookup(index, adv.address), adv) :
          index' = Store(index, adv.address, info)
    /\ prev_info' = Lookup(index, adv.address)
    /\ delivered' = Some(adv)
    /\ AdvFrame
    /\ UNCHANGED <<scanning, last_detection, connecting, attempts>>

(***************************************************************************)
(* BaseHaRemoteScanner._async_on_advertisement                             *)
(***************************************************************************)
OnAdvertisement(adv) ==
    /\ scanning' = (connecting = 0)
    /\ last_detection' = adv.time
    /\ \E info \in Fused(Lookup(index, adv.address), adv) :
          index' = Store(index, adv.address, info)
    /\ prev_info' = Lookup(index, adv.address)
    /\ delivered' = Some(adv)
    /\ AdvFrame
    /\ UNCHANGED <<connecting, attempts>>

(***************************************************************************)
(* BaseHaScanner.connecting: `with scanner.connecting(): <body>'.  A caller *)
(* enters the block, and leaves it normally or because the body raised;    *)
(* the finally clause runs on both exits.                                  *)
(***************************************************************************)
\* connecting() that counts the attempt but leaves the flag alone on entry
ConnectingEnter_NoFlag(c) ==
    /\ attempts[c] # "body"
    /\ connecting' = connecting + 1
    /\ attempts' = [attempts EXCEPT ![c] = "body"]
    /\ delivered' = None
    /\ QuietFrame
    /\ expired' = [a \in DOMAIN expired \ DOMAIN index |-> expired[a]]
    /\ raised' = FALSE
    /\ prev_info' = None
    /\ GateFrame
    /\ UNCHANGED <<index, last_detection, scanning>>

ConnectingEnter(c) ==
    /\ attempts[c] # "body"
    /\ connecting' = connecting + 1
    /\ scanning' = (connecting' = 0)
    /\ attempts' = [attempts EXCEPT ![c] = "body"]
    /\ delivered' = None
    /\ QuietFrame
    /\ expired' = [a \in DOMAIN expired \ DOMAIN index |-> expired[a]]
    /\ raised' = FALSE
    /\ prev_info' = None
    /\ GateFrame
    /\ UNCHANGED <<index, last_detection>>

\* connecting() without try/finally: a failing body skips the release
ConnectingExit_NoFinally(c, failed) ==
    /\ attempts[c] = "body"
    /\ connecting' = IF failed THEN connecting ELSE connecting - 1
    /\ scanning' = IF failed THEN scanning ELSE (connecting' = 0)
    /\ attempts' = [attempts EXCEPT ![c] = IF failed THEN "failed" ELSE "idle"]
    /\ delivered' = None
    /\ QuietFrame
    /\ expired' = [a \in DOMAIN expired \ DOMAIN index |-> expired[a]]
    /\ raised' = FALSE
    /\ prev_info' = None
    /\ GateFrame
    /\ UNCHANGED <<index, last_detection>>

ConnectingExit(c, failed) ==
    /\ attempts[c] = "body"
    /\ connecting' = connecting - 1
    /\ scanning' = (connecting' = 0)
    /\ attempts' = [attempts EXCEPT ![c] = IF failed THEN "failed" ELSE "idle"]
    /\ delivered' = None
    /\ QuietFrame
    /\ expired' = [a \in DOMAIN expired \ DOMAIN index |-> expired[a]]
    /\ raised' = FALSE
    /\ prev_info' = None
    /\ GateFrame
    /\ UNCHANGED <<index, last_detection>>

(***************************************************************************)
(* The clock, the timers of the event loop and the calls they make.  A     *)
(* timer handle is None, Some("pending") while its call is scheduled, and  *)
(* Some("fired") once the loop has made the call.  The loop may run a      *)
(* pending call at any time.                                               *)
(***************************************************************************)
\* monotonic_time_coarse() advances
ClockTick ==
    /\ now < MaxNow
    /\ now' = now + 1
    /\ StoreFrame
    /\ op' = "none"
    /\ delivered' = None
    /\ QuietFrame
    /\ expired' = [a \in DOMAIN expired \ DOMAIN index |-> expired[a]]
    /\ raised' = FALSE
    /\ prev_info' = None
    /\ before' = None
    /\ restored' = None
    /\ UNCHANGED <<index, scanning, connecting, last_detection, attempts, start_time,
                   cancel_watchdog, cancel_track, watchdog_timers, expire_timers,
                   stall, set_up>>

\* TimerHandle.cancel() that leaves the call pending
Cancelled_Never(handle, pending) ==
    pending

\* TimerHandle.cancel(): one pending call less, unless the call was already made
Cancelled(handle, pending) ==
    IF handle = Some("pending") THEN pending - 1 ELSE pending

\* _async_watchdog_triggered with >= for >
WatchdogTriggered_AtTimeout ==
    now - last_detection >= SCANNER_WATCHDOG_TIMEOUT

\* BaseHaScanner._async_watchdog_triggered
WatchdogTriggered ==
    now - last_detection > SCANNER_WATCHDOG_TIMEOUT

\* _async_call_scanner_watchdog that schedules no next call
CallScannerWatchdog_Once ==
    /\ watchdog_timers > 0
    /\ scanning' = IF WatchdogTriggered THEN FALSE ELSE (connecting = 0)
    /\ watchdog_timers' = watchdog_timers - 1
    /\ cancel_watchdog' = Some("fired")
    /\ stall' = IF WatchdogTriggered THEN [phase |-> "stalled", time |-> now] ELSE stall
    /\ StoreFrame
    /\ op' = "watchdog"
    /\ delivered' = None
    /\ QuietFrame
    /\ expired' = [a \in DOMAIN expired \ DOMAIN index |-> expired[a]]
    /\ raised' = FALSE
    /\ prev_info' = None
    /\ before' = None
    /\ restored' = None
    /\ UNCHANGED <<index, connecting, last_detection, attempts, now, start_time,
                   cancel_track, expire_timers, set_up>>

\* BaseHaScanner._async_call_scanner_watchdog, the watchdog timer's call:
\* _async_scanner_watchdog, then _schedule_watchdog
CallScannerWatchdog ==
    /\ watchdog_timers > 0
    /\ scanning' = IF WatchdogTriggered THEN FALSE ELSE (connecting = 0)
    /\ watchdog_timers' = (watchdog_timers - 1) + 1
    /\ cancel_watchdog' = Some("pending")
    /\ stall' = IF WatchdogTriggered THEN [phase |-> "stalled", time |-> now] ELSE stall
    /\ StoreFrame
    /\ op' = "watchdog"
    /\ delivered' = None
    /\ QuietFrame
    /\ expired' = [a \in DOMAIN expired \ DOMAIN index |-> expired[a]]
    /\ raised' = FALSE
    /\ prev_info' = None
    /\ before' = None
    /\ restored' = None
    /\ UNCHANGED <<index, connecting, last_detection, attempts, now, start_time,
                   cancel_track, expire_timers, set_up>>

\* _async_expire_devices with >= for >
ExpireDevices_AtWindow(idx, t) ==
    [a \in {x \in DOMAIN idx : ~(t - idx[x].time >= EXPIRE_SECONDS)} |-> idx[a]]

\* BaseHaRemoteScanner._async_expire_devices at monotonic time t
ExpireDevices(idx, t) ==
    [a \in {x \in DOMAIN idx : ~(t - idx[x].time > EXPIRE_SECONDS)} |-> idx[a]]

\* what a removed record held
Remains(info) ==
    [name |-> info.name, service_uuids |-> info.service_uuids,
     service_data |-> info.service_data, manufacturer_data |-> info.manufacturer_data,
     details |-> info.device.details]

\* the removed records after an expiry pass that took idx to kept
Expired(gone, idx, kept) ==
    [a \in (DOMAIN gone \cup DOMAIN idx) \ DOMAIN kept |->
        IF a \in DOMAIN idx THEN Remains(idx[a]) ELSE gone[a]]

\* BaseHaRemoteScanner._async_expire_devices_schedule_next, the expiry timer's
\* call: _async_expire_devices, then _schedule_expire_devices.  The call made
\* is the one _cancel_track refers to (tracked) or another pending one.
ExpireDevicesScheduleNext ==
    /\ expire_timers > 0
    /\ \E tracked \in BOOLEAN :
          /\ tracked => cancel_track = Some("pending")
          /\ ~tracked => expire_timers > (IF cancel_track = Some("pending") THEN 1 ELSE 0)
          /\ expire_timers' =
                Cancelled(IF tracked THEN Some("fired") ELSE cancel_track,
                          expire_timers - 1) + 1
    /\ cancel_track' = Some("pending")
    /\ index' = ExpireDevices(index, now)
    /\ before' = Some(index)
    /\ StoreFrame
    /\ op' = "expire"
    /\ delivered' = None
    /\ QuietFrame
    /\ expired' = Expired(expired, index, ExpireDevices(index, now))
    /\ raised' = FALSE
    /\ prev_info' = None
    /\ restored' = None
    /\ UNCHANGED <<scanning, connecting, last_detection, attempts, now, start_time,
                   cancel_watchdog, watchdog_timers, stall, set_up>>

\* async_setup that leaves the last detection time alone
AsyncSetup_KeepDetection ==
    /\ expire_timers' = Cancelled(cancel_track, expire_timers) + 1
    /\ cancel_track' = Some("pending")
    /\ start_time' = now
    /\ watchdog_timers' = IF cancel_watchdog = None
                          THEN watchdog_timers + 1 ELSE watchdog_timers
    /\ cancel_watchdog' = IF cancel_watchdog = None
                          THEN Some("pending") ELSE cancel_watchdog
    /\ set_up' = TRUE
    /\ StoreFrame
    /\ op' = "setup"
    /\ delivered' = None
    /\ QuietFrame
    /\ expired' = [a \in DOMAIN expired \ DOMAIN index |-> expired[a]]
    /\ raised' = FALSE
    /\ prev_info' = None
    /\ before' = None
    /\ restored' = None
    /\ UNCHANGED <<index, scanning, connecting, attempts, now, stall, last_detection>>

\* BaseHaRemoteScanner.async_setup: _schedule_expire_devices, then
\* _async_setup_scanner_watchdog
AsyncSetup ==
    /\ expire_timers' = Cancelled(cancel_track, expire_timers) + 1
    /\ cancel_track' = Some("pending")
    /\ start_time' = now
    /\ last_detection' = now
    /\ watchdog_timers' = IF cancel_watchdog = None
                          THEN watchdog_timers + 1 ELSE watchdog_timers
    /\ cancel_watchdog' = IF cancel_watchdog = None
                          THEN Some("pending") ELSE cancel_watchdog
    /\ set_up' = TRUE
    /\ StoreFrame
    /\ op' = "setup"
    /\ delivered' = None
    /\ QuietFrame
    /\ expired' = [a \in DOMAIN expired \ DOMAIN index |-> expired[a]]
    /\ raised' = FALSE
    /\ prev_info' = None
    /\ before' = None
    /\ restored' = None
    /\ UNCHANGED <<index, scanning, connecting, attempts, now, stall>>

\* _unsetup that stops the watchdog only
Unsetup_WatchdogOnly ==
    /\ watchdog_timers' = Cancelled(cancel_watchdog, watchdog_timers)
    /\ cancel_watchdog' = None
    /\ set_up' = FALSE
    /\ StoreFrame
    /\ op' = "teardown"
    /\ delivered' = None
    /\ QuietFrame
    /\ expired' = [a \in DOMAIN expired \ DOMAIN index |-> expired[a]]
    /\ raised' = FALSE
    /\ prev_info' = None
    /\ before' = None
    /\ restored' = None
    /\ UNCHANGED <<index, scanning, connecting, last_detection, attempts, now,
                   start_time, stall, expire_timers, cancel_track>>

\* BaseHaRemoteScanner._unsetup, the teardown handle async_setup returns:
\* _async_stop_scanner_watchdog, then _cancel_expire_devices
Unsetup ==
    /\ watchdog_timers' = Cancelled(cancel_watchdog, watchdog_timers)
    /\ cancel_watchdog' = None
    /\ expire_timers' = Cancelled(cancel_track, expire_timers)
    /\ cancel_track' = None
    /\ set_up' = FALSE
    /\ StoreFrame
    /\ op' = "teardown"
    /\ delivered' = None
    /\ QuietFrame
    /\ expired' = [a \in DOMAIN expired \ DOMAIN index |-> expired[a]]
    /\ raised' = FALSE
    /\ prev_info' = None
    /\ before' = None
    /\ restored' = None
    /\ UNCHANGED <<index, scanning, connecting, last_detection, attempts, now,
                   start_time, stall>>

(***************************************************************************)
(* Snapshots of the index (storage.DiscoveredDeviceAdvertisementData) and  *)
(* their restoration.                                                      *)
(***************************************************************************)
\* bleak AdvertisementData
\* tuple(items) and list(t): a tuple is not the list of its items
TupleOf(items) == [tuple |-> items]

ListOf(t) == t.tuple

AdvertisementData(local_name, manufacturer_data, service_data, service_uuids, tx_power, rssi, platform_data) ==
    [local_name |-> local_name, manufacturer_data |-> manufacturer_data,
     service_data |-> service_data, service_uuids |-> service_uuids,
     tx_power |-> tx_power, rssi |-> rssi, platform_data |-> platform_data]

\* storage.DiscoveredDeviceAdvertisementData
DiscoveredDeviceAdvertisementData(connectable, expire_seconds, datas, timestamps, raw) ==
    [connectable |-> connectable, expire_seconds |-> expire_seconds,
     discovered_device_advertisement_datas |-> datas,
     discovered_device_timestamps |-> timestamps,
     discovered_device_raw |-> raw]

\* the device a snapshot holds for an address: one without a name, one named
HistoryDevice(address) ==
    BLEDevice(address, IF address = Addr1 THEN None ELSE Some(NameT), BaseDetails, -50)

\* the advertisement data a snapshot holds for an address
HistoryAdvertisement ==
    AdvertisementData(None, EmptyDict, EmptyDict, <<>>, None, -50, TupleOf(<<>>))

\* snapshots handed to restore_discovered_devices: any addresses, any
\* timestamps, and the ones whose timestamp map misses an address
Histories ==
    {DiscoveredDeviceAdvertisementData(Connectable, EXPIRE_SECONDS,
        [a \in A |-> <<HistoryDevice(a), HistoryAdvertisement>>], ts, EmptyDict) :
     <<A, ts>> \in UNION {{<<A, ts>> : ts \in UNION {[B -> ClockTimes] :
                                          B \in {A, A \ {Addr2}}}} :
                          A \in SUBSET Addresses}}

\* the record restore_discovered_devices builds for one address
Restored(history, address) ==
    LET device == history.discovered_device_advertisement_datas[address][1]
        adv == history.discovered_device_advertisement_datas[address][2]
    IN  [name |-> IF Truthy(device.name) THEN Val(device.name) ELSE address,
         address |-> address, rssi |-> adv.rssi,
         manufacturer_data |-> adv.manufacturer_data,
         service_data |-> adv.service_data,
         service_uuids |-> adv.service_uuids,
         source |-> SOURCE, device |-> device, advertisement |-> Some(adv),
         connectable |-> Connectable,
         time |-> history.discovered_device_timestamps[address],
         tx_power |-> adv.tx_power, raw |-> None]

\* discovered_device_timestamps[address] raises KeyError for some address
RestoreRaises(history) ==
    ~(DOMAIN history.discovered_device_advertisement_datas
        \subseteq DOMAIN history.discovered_device_timestamps)

\* restore_discovered_devices without its expiry pass
RestoreDiscoveredDevices_NoExpire(history) ==
    /\ StoreFrame
    /\ IF RestoreRaises(history)
       THEN /\ index' = index
            /\ op' = "restore raised"
            /\ before' = None
       ELSE /\ index' = [a \in DOMAIN history.discovered_device_advertisement_datas
                            |-> Restored(history, a)]
            /\ op' = "restore"
            /\ before' = Some(index)
    /\ restored' = Some(history)
    /\ delivered' = None
    /\ QuietFrame
    /\ expired' = [a \in DOMAIN expired \ DOMAIN index' |-> expired[a]]
    /\ raised' = RestoreRaises(history)
    /\ prev_info' = None
    /\ UNCHANGED <<scanning, connecting, last_detection, attempts, timerVars, stall, set_up>>

\* BaseHaRemoteScanner.restore_discovered_devices: the index is replaced by
\* the records of the snapshot, then _async_expire_devices runs; a KeyError
\* leaves the index as it was
RestoreDiscoveredDevices(history) ==
    /\ StoreFrame
    /\ IF RestoreRaises(history)
       THEN /\ index' = index
            /\ op' = "restore raised"
            /\ before' = None
       ELSE /\ index' = ExpireDevices(
                    [a \in DOMAIN history.discovered_device_advertisement_datas
                        |-> Restored(history, a)], now)
            /\ op' = "restore"
            /\ before' = Some(index)
    /\ restored' = Some(history)
    /\ delivered' = None
    /\ QuietFrame
    /\ expired' = [a \in DOMAIN expired \ DOMAIN index' |-> expired[a]]
    /\ raised' = RestoreRaises(history)
    /\ prev_info' = None
    /\ UNCHANGED <<scanning, connecting, last_detection, attempts, timerVars, stall, set_up>>

(***************************************************************************)
(* storage.py: hexadecimal and decimal strings.  A str is a sequence of    *)
(* one-character strings, bytes a sequence of numbers; a conversion that   *)
(* raises ValueError yields None.  The strings of the model hold no        *)
(* whitespace, sign or underscore.                                         *)
(***************************************************************************)
HexDigits == <<"0", "1", "2", "3", "4", "5", "6", "7", "8", "9", "a", "b", "c", "d", "e", "f">>

UpperHexDigits == <<"0", "1", "2", "3", "4", "5", "6", "7", "8", "9", "A", "B", "C", "D", "E", "F">>

IsHexDigit(c) == c \in Range(HexDigits) \cup Range(UpperHexDigits)

HexValue(c) == (CHOOSE i \in DOMAIN HexDigits : HexDigits[i] = c \/ UpperHexDigits[i] = c) - 1

RECURSIVE HexBytes(_)
HexBytes(s) ==
    IF s = <<>> THEN <<>>
    ELSE <<16 * HexValue(s[1]) + HexValue(s[2])>> \o HexBytes(SubSeq(s, 3, Len(s)))

\* bytes.fromhex accepting a string of odd length
FromHex_OddLength(s) ==
    IF \A i \in DOMAIN s : IsHexDigit(s[i])
    THEN Some(HexBytes(IF Len(s) % 2 = 0 THEN s ELSE SubSeq(s, 1, Len(s) - 1)))
    ELSE None

\* bytes.fromhex
FromHex(s) ==
    IF Len(s) % 2 = 0 /\ \A i \in DOMAIN s : IsHexDigit(s[i])
    THEN Some(HexBytes(s))
    ELSE None

IsDigit(c) == \E i \in 1..10 : HexDigits[i] = c

RECURSIVE DecimalValue(_)
DecimalValue(s) ==
    IF s = <<>> THEN 0
    ELSE 10 * DecimalValue(SubSeq(s, 1, Len(s) - 1)) + HexValue(s[Len(s)])

\* int(manufacturer_id)
ParseInt(s) ==
    IF s # <<>> /\ \A i \in DOMAIN s : IsDigit(s[i]) THEN Some(DecimalValue(s)) ELSE None

\* dict.get(key, {}) and the removal of a key from a dict
Drop(d, keys) == [k \in DOMAIN d \ keys |-> d[k]]

(***************************************************************************)
(* storage.py: deserialization of one persisted snapshot.  A step that     *)
(* raises yields None.                                                     *)
(***************************************************************************)
\* _ble_device_from_dict handing the dict with its "rssi" to BLEDevice
BleDeviceFromDict_KeepRssi(device_dict) ==
    LET device_data == device_dict
    IN  IF DOMAIN device_data = {"address", "name", "details"}
        THEN Some([address |-> device_data.address, name |-> device_data.name,
                   details |-> device_data.details])
        ELSE None

\* _ble_device_from_dict: the copy without "rssi" must hold exactly the
\* arguments of BLEDevice
BleDeviceFromDict(device_dict) ==
    LET device_data == Drop(device_dict, {"rssi"})
    IN  IF DOMAIN device_data = {"address", "name", "details"}
        THEN Some([address |-> device_data.address, name |-> device_data.name,
                   details |-> device_data.details])
        ELSE None

\* the device dict after _ble_device_from_dict popping "rssi" from it
BleDeviceDictAfter_Pop(device_dict) == Drop(device_dict, {"rssi"})

\* the device dict after _ble_device_from_dict: "rssi" is popped from the
\* copy device_dict.copy() made
BleDeviceDictAfter(device_dict) == device_dict

\* the persisted snapshot after from_dict went over its devices
DataAfter(data) ==
    IF "discovered_device_advertisement_datas" \notin DOMAIN data THEN data
    ELSE [data EXCEPT !.discovered_device_advertisement_datas =
            [a \in DOMAIN @ |->
                IF "device" \in DOMAIN @[a]
                THEN [@[a] EXCEPT !.device = BleDeviceDictAfter(@)]
                ELSE @[a]]]

\* the manufacturer_data and service_data comprehensions of
\* _advertisement_data_from_dict
ManufacturerDataFromDict(d) ==
    LET ids == [k \in DOMAIN d |-> ParseInt(k)]
        payloads == [k \in DOMAIN d |-> FromHex(d[k])]
    IN  IF \A k \in DOMAIN d : ids[k] # None /\ payloads[k] # None
        THEN Some([i \in {Val(ids[k]) : k \in DOMAIN d} |->
                      Val(payloads[CHOOSE k \in DOMAIN d : Val(ids[k]) = i])])
        ELSE None

ServiceDataFromDict(d) ==
    LET payloads == [k \in DOMAIN d |-> FromHex(d[k])]
    IN  IF \A k \in DOMAIN d : payloads[k] # None
        THEN Some([k \in DOMAIN d |-> Val(payloads[k])])
        ELSE None

AdvertisementDataKeys ==
    {"local_name", "manufacturer_data", "service_data", "service_uuids", "rssi",
     "tx_power", "platform_data"}

\* _advertisement_data_from_dict
AdvertisementDataFromDict(d) ==
    IF ~(AdvertisementDataKeys \subseteq DOMAIN d) THEN None
    ELSE LET manufacturer_data == ManufacturerDataFromDict(d.manufacturer_data)
             service_data == ServiceDataFromDict(d.service_data)
         IN  IF manufacturer_data = None \/ service_data = None THEN None
             ELSE Some(AdvertisementData(d.local_name, Val(manufacturer_data),
                                         Val(service_data), d.service_uuids,
                                         d.tx_power, d.rssi,
                                         TupleOf(d.platform_data)))

\* one item of _deserialize_discovered_device_advertisement_datas
DiscoveredDeviceFromDict(entry) ==
    IF ~({"device", "advertisement_data"} \subseteq DOMAIN entry) THEN None
    ELSE LET device == BleDeviceFromDict(entry.device)
             advertisement_data == AdvertisementDataFromDict(entry.advertisement_data)
         IN  IF device = None \/ advertisement_data = None THEN None
             ELSE Some(<<Val(device), Val(advertisement_data)>>)

\* data.get("discovered_device_raw", {})
RawOf(data) ==
    IF "discovered_device_raw" \in DOMAIN data THEN data.discovered_device_raw ELSE EmptyDict

\* _deserialize_discovered_device_raw: a null stays None
RawFromDict(raw) ==
    LET payloads == [a \in DOMAIN raw |-> IF raw[a] = None THEN Some(None)
                                          ELSE IF FromHex(Val(raw[a])) = None THEN None
                                          ELSE Some(FromHex(Val(raw[a])))]
    IN  IF \A a \in DOMAIN raw : payloads[a] # None
        THEN Some([a \in DOMAIN raw |-> Val(payloads[a])])
        ELSE None

\* the keys discovered_device_advertisement_data_from_dict subscripts
RequiredKeys ==
    {"connectable", "expire_seconds", "discovered_device_advertisement_datas",
     "discovered_device_timestamps"}

\* discovered_device_advertisement_data_from_dict that leaves out what does
\* not decode
Deserialized_Partial(data, time_diff) ==
    IF ~(RequiredKeys \subseteq DOMAIN data) THEN None
    ELSE LET datas == [a \in DOMAIN data.discovered_device_advertisement_datas |->
                          DiscoveredDeviceFromDict(
                              data.discovered_device_advertisement_datas[a])]
             raw == RawFromDict(RawOf(data))
         IN  IF (\A a \in DOMAIN datas : datas[a] = None) \/ raw = None THEN None
             ELSE Some(DiscoveredDeviceAdvertisementData(
                     data.connectable, data.expire_seconds,
                     [a \in {x \in DOMAIN datas : datas[x] # None} |-> Val(datas[a])],
                     [a \in DOMAIN data.discovered_device_timestamps |->
                         data.discovered_device_timestamps[a] - time_diff],
                     Val(raw)))

\* discovered_device_advertisement_data_from_dict: the snapshot, or None for
\* an exception raised in the try block.  time_diff is
\* _get_monotonic_time_diff(), read once by
\* _deserialize_discovered_device_timestamps.
Deserialized(data, time_diff) ==
    IF ~(RequiredKeys \subseteq DOMAIN data) THEN None
    ELSE LET datas == [a \in DOMAIN data.discovered_device_advertisement_datas |->
                          DiscoveredDeviceFromDict(
                              data.discovered_device_advertisement_datas[a])]
             raw == RawFromDict(RawOf(data))
         IN  IF (\E a \in DOMAIN datas : datas[a] = None) \/ raw = None THEN None
             ELSE Some(DiscoveredDeviceAdvertisementData(
                     data.connectable, data.expire_seconds,
                     [a \in DOMAIN datas |-> Val(datas[a])],
                     [a \in DOMAIN data.discovered_device_timestamps |->
                         data.discovered_device_timestamps[a] - time_diff],
                     Val(raw)))

(***************************************************************************)
(* storage.py: serialization of one snapshot.                              *)
(***************************************************************************)
\* bytes.hex: two lowercase digits a byte
RECURSIVE ToHex(_)
ToHex(b) ==
    IF b = <<>> THEN <<>>
    ELSE <<HexDigits[(b[1] \div 16) + 1], HexDigits[(b[1] % 16) + 1]>> \o ToHex(Tail(b))

\* str(manufacturer_id) of a natural number
RECURSIVE DecimalString(_)
DecimalString(n) ==
    IF n < 10 THEN <<HexDigits[n + 1]>>
    ELSE DecimalString(n \div 10) \o <<HexDigits[(n % 10) + 1]>>

\* _ble_device_to_dict: rssi is the one of the advertisement data
BleDeviceToDict(ble_device, advertisement_data) ==
    [address |-> ble_device.address, name |-> ble_device.name,
     rssi |-> advertisement_data.rssi, details |-> ble_device.details]

\* the manufacturer_data comprehension writing the low byte of an id in hex
ManufacturerDataToDict_HexKeys(manufacturer_data) ==
    [k \in {ToHex(<<i % 256>>) : i \in DOMAIN manufacturer_data} |->
        ToHex(manufacturer_data[CHOOSE i \in DOMAIN manufacturer_data :
                                   ToHex(<<i % 256>>) = k])]

\* the manufacturer_data comprehension of _advertisement_data_to_dict
ManufacturerDataToDict(manufacturer_data) ==
    [k \in {DecimalString(i) : i \in DOMAIN manufacturer_data} |->
        ToHex(manufacturer_data[CHOOSE i \in DOMAIN manufacturer_data :
                                   DecimalString(i) = k])]

\* _advertisement_data_to_dict
AdvertisementDataToDict(advertisement_data) ==
    [local_name |-> advertisement_data.local_name,
     manufacturer_data |-> ManufacturerDataToDict(advertisement_data.manufacturer_data),
     service_data |-> [u \in DOMAIN advertisement_data.service_data |->
                          ToHex(advertisement_data.service_data[u])],
     service_uuids |-> advertisement_data.service_uuids,
     rssi |-> advertisement_data.rssi,
     tx_power |-> advertisement_data.tx_power,
     platform_data |-> ListOf(advertisement_data.platform_data)]

\* _serialize_discovered_device_advertisement_datas
SerializedDatas(datas) ==
    [a \in DOMAIN datas |->
        [device |-> BleDeviceToDict(datas[a][1], datas[a][2]),
         advertisement_data |-> AdvertisementDataToDict(datas[a][2])]]

\* _serialize_discovered_device_timestamps reading the clocks anew for the
\* second address
SerializedTimestamps_PerAddress(timestamps, time_diff) ==
    [a \in DOMAIN timestamps |->
        timestamps[a] + time_diff + (IF a = Addr2 THEN 1 ELSE 0)]

\* _serialize_discovered_device_timestamps: time_diff is read once
SerializedTimestamps(timestamps, time_diff) ==
    [a \in DOMAIN timestamps |-> timestamps[a] + time_diff]

\* _serialize_discovered_device_raw: None stays a null
SerializedRaw(raw) ==
    [a \in DOMAIN raw |-> IF raw[a] = None THEN None ELSE Some(ToHex(Val(raw[a])))]

\* discovered_device_advertisement_data_to_dict
Serialized(data, time_diff) ==
    [connectable |-> data.connectable,
     expire_seconds |-> data.expire_seconds,
     discovered_device_advertisement_datas |->
        SerializedDatas(data.discovered_device_advertisement_datas),
     discovered_device_timestamps |->
        SerializedTimestamps(data.discovered_device_timestamps, time_diff),
     discovered_device_raw |-> SerializedRaw(data.discovered_device_raw)]

(***************************************************************************)
(* storage.py: the expire-on-load pass over the persisted collection.      *)
(***************************************************************************)
\* time_diff > expire_seconds with >= for >
Stale_AtWindow(data, t) ==
    {a \in DOMAIN data.discovered_device_timestamps :
        t - data.discovered_device_timestamps[a] >= data.expire_seconds}

\* the addresses of the first branch: time_diff > expire_seconds
Stale(data, t) ==
    {a \in DOMAIN data.discovered_device_timestamps :
        t - data.discovered_device_timestamps[a] > data.expire_seconds}

\* the addresses of the second branch: time_diff < 0, logged with a warning
Future(data, t) ==
    {a \in DOMAIN data.discovered_device_timestamps \ Stale(data, t) :
        t - data.discovered_device_timestamps[a] < 0}

\* the pass over one scanner that deletes the timestamps only
ExpiredSnapshot_KeepData(data, t) ==
    [data EXCEPT !.discovered_device_timestamps = Drop(@, Stale(data, t) \cup Future(data, t))]

\* the pass over one scanner: del timestamps[address], del
\* discovered_device_advertisement_datas[address], discovered_device_raw.pop
ExpiredSnapshot(data, t) ==
    LET expire == Stale(data, t) \cup Future(data, t)
        pruned == [data EXCEPT !.discovered_device_timestamps = Drop(@, expire),
                               !.discovered_device_advertisement_datas = Drop(@, expire)]
    IN  IF "discovered_device_raw" \in DOMAIN data
        THEN [pruned EXCEPT !.discovered_device_raw = Drop(@, expire)]
        ELSE pruned

\* data[EXPIRE_SECONDS], data[DISCOVERED_DEVICE_TIMESTAMPS] or
\* data[DISCOVERED_DEVICE_ADVERTISEMENT_DATAS] raises KeyError
LacksKey(data) ==
    ~({"expire_seconds", "discovered_device_timestamps",
       "discovered_device_advertisement_datas"} \subseteq DOMAIN data)

\* del discovered_device_advertisement_datas[address] raises KeyError
DeleteRaises(data, t) ==
    ~(Stale(data, t) \cup Future(data, t)
        \subseteq DOMAIN data.discovered_device_advertisement_datas)

\* the pass that keeps the scanners left without a timestamp
ExpiredCollection_KeepEmpty(collection, t) ==
    [s \in DOMAIN collection |-> ExpiredSnapshot(collection[s], t)]

\* the collection after the pass: a scanner left without a timestamp is
\* deleted
ExpiredCollection(collection, t) ==
    LET expired_scanners ==
            {s \in DOMAIN collection :
                ExpiredSnapshot(collection[s], t).discovered_device_timestamps = EmptyDict}
    IN  [s \in DOMAIN collection \ expired_scanners |-> ExpiredSnapshot(collection[s], t)]

\* a storage call leaves the scanner alone
ScannerFrame ==
    /\ delivered' = None
    /\ QuietFrame
    /\ expired' = [a \in DOMAIN expired \ DOMAIN index |-> expired[a]]
    /\ prev_info' = None
    /\ before' = None
    /\ restored' = None
    /\ UNCHANGED <<index, scanning, connecting, last_detection, attempts, timerVars,
                   stall, set_up>>

\* expire_stale_scanner_discovered_device_advertisement_data(data_by_scanner).
\* A KeyError on the first scanner's keys leaves the collection as it was;
\* no collection of the model raises later than that.
ExpireStale ==
    /\ \A s \in DOMAIN data_by_scanner :
          /\ LacksKey(data_by_scanner[s]) => DOMAIN data_by_scanner = {s}
          /\ ~LacksKey(data_by_scanner[s]) => ~DeleteRaises(data_by_scanner[s], wall_now)
    /\ IF \E s \in DOMAIN data_by_scanner : LacksKey(data_by_scanner[s])
       THEN /\ UNCHANGED data_by_scanner
            /\ log' = {}
            /\ op' = "expire stale raised"
       ELSE /\ data_by_scanner' = ExpiredCollection(data_by_scanner, wall_now)
            /\ log' = UNION {{<<"warning", s, a>> :
                                a \in Future(data_by_scanner[s], wall_now)} :
                             s \in DOMAIN data_by_scanner}
            /\ op' = "expire stale"
    /\ argument' = Some(data_by_scanner)
    /\ result' = None
    /\ raised' = \E s \in DOMAIN data_by_scanner : LacksKey(data_by_scanner[s])
    /\ saved' = None
    /\ ScannerFrame
    /\ UNCHANGED wall_now

\* discovered_device_advertisement_data_from_dict(data_by_scanner[scanner]):
\* the snapshot, or the logged exception and None
FromDict(scanner) ==
    /\ scanner \in DOMAIN data_by_scanner
    /\ LET returned == Deserialized(data_by_scanner[scanner], wall_now - now)
       IN  /\ result' = returned
           /\ log' = IF returned = None THEN {<<"error", scanner>>} ELSE {}
    /\ argument' = Some(data_by_scanner[scanner])
    /\ data_by_scanner' = [data_by_scanner EXCEPT ![scanner] = DataAfter(@)]
    /\ op' = "from dict"
    /\ raised' = FALSE
    /\ ScannerFrame
    /\ UNCHANGED <<wall_now, saved>>

(***************************************************************************)
(* Serialization of the index.                                             *)
(***************************************************************************)
\* bleak_retry_connector.NO_RSSI_VALUE
NO_RSSI_VALUE == -127

\* BluetoothServiceInfoBleak._advertisement_internal
AdvertisementInternal(info) ==
    IF info.advertisement = None
    THEN AdvertisementData(
            IF info.name = EmptyStr \/ info.name = info.address THEN None ELSE Some(info.name),
            info.manufacturer_data, info.service_data, info.service_uuids,
            IF info.tx_power = None THEN Some(NO_RSSI_VALUE) ELSE info.tx_power,
            info.rssi, TupleOf(<<>>))
    ELSE Val(info.advertisement)

\* a record after _advertisement_internal that also stores the tx power of
\* the view
Memoized_TxPower(info) ==
    [info EXCEPT !.advertisement = Some(AdvertisementInternal(info)),
                 !.tx_power = AdvertisementInternal(info).tx_power]

\* a record after _advertisement_internal: the view is kept in _advertisement
Memoized(info) ==
    [info EXCEPT !.advertisement = Some(AdvertisementInternal(info))]

\* BaseHaRemoteScanner.serialize_discovered_devices; each record memoizes its
\* advertisement view
SerializeDiscoveredDevices ==
    /\ result' = Some(DiscoveredDeviceAdvertisementData(
            Connectable, EXPIRE_SECONDS,
            [a \in DOMAIN index |-> <<index[a].device, AdvertisementInternal(index[a])>>],
            [a \in DOMAIN index |-> index[a].time],
            EmptyDict))
    /\ index' = [a \in DOMAIN index |-> Memoized(index[a])]
    /\ log' = {}
    /\ argument' = None
    /\ op' = "serialize"
    /\ delivered' = None
    /\ QuietFrame
    /\ expired' = [a \in DOMAIN expired \ DOMAIN index |-> expired[a]]
    /\ raised' = FALSE
    /\ prev_info' = None
    /\ before' = None
    /\ restored' = None
    /\ UNCHANGED <<scanning, connecting, last_detection, attempts, timerVars, stall,
                   set_up, data_by_scanner, wall_now, saved>>

\* HaScanner-independent async_diagnostics of the remote scanner: the dict it
\* returns is built from discovered_devices_and_advertisement_data, so each
\* record memoizes its advertisement view
AsyncDiagnostics ==
    /\ index' = [a \in DOMAIN index |-> Memoized(index[a])]
    /\ log' = {}
    /\ argument' = None
    /\ result' = None
    /\ op' = "diagnostics"
    /\ delivered' = None
    /\ QuietFrame
    /\ expired' = [a \in DOMAIN expired \ DOMAIN index |-> expired[a]]
    /\ raised' = FALSE
    /\ prev_info' = None
    /\ before' = Some(index)
    /\ restored' = None
    /\ UNCHANGED <<scanning, connecting, last_detection, attempts, timerVars, stall,
                   set_up, data_by_scanner, wall_now, saved>>

\* BaseHaRemoteScanner.get_discovered_device_advertisement_data: the device
\* and the advertisement view of the record, which the record memoizes; None
\* for an address without a record
GetDiscoveredDeviceAdvertisementData(address) ==
    /\ index' = [a \in DOMAIN index |-> IF a = address THEN Memoized(index[a]) ELSE index[a]]
    /\ result' = IF address \in DOMAIN index
                 THEN Some(<<index[address].device, AdvertisementInternal(index[address])>>)
                 ELSE None
    /\ argument' = Some(address)
    /\ log' = {}
    /\ op' = "get advertisement"
    /\ delivered' = None
    /\ QuietFrame
    /\ expired' = [a \in DOMAIN expired \ DOMAIN index |-> expired[a]]
    /\ raised' = FALSE
    /\ prev_info' = None
    /\ before' = Some(index)
    /\ restored' = None
    /\ UNCHANGED <<scanning, connecting, last_detection, attempts, timerVars, stall,
                   set_up, data_by_scanner, wall_now, saved>>

\* discovered_device_advertisement_data_to_dict(data), stored as this
\* scanner's entry of the collection
ToDict(data) ==
    /\ data_by_scanner' =
          [k \in DOMAIN data_by_scanner \cup {SOURCE} |->
              IF k = SOURCE THEN Serialized(data, wall_now - now) ELSE data_by_scanner[k]]
    /\ saved' = Some([snapshot |-> data,
                      index |-> IF op = "serialize" /\ result = Some(data)
                                THEN Some(index) ELSE None])
    /\ log' = {}
    /\ argument' = None
    /\ result' = None
    /\ op' = "to dict"
    /\ raised' = FALSE
    /\ ScannerFrame
    /\ UNCHANGED wall_now

\* restore_discovered_devices(history) with the snapshot from_dict returned
RestoreLoaded ==
    /\ op = "from dict"
    /\ result # None
    /\ RestoreDiscoveredDevices(Val(result))

\* BluetoothServiceInfoBleak._as_connectable of the record of an address.
\* _async_on_advertisement never assigns the raw slot of the record it
\* builds: reading it raises AttributeError where the class is interpreted
\* and yields None where the slots are compiled.
AsConnectable(address) ==
    /\ address \in DOMAIN index
    /\ LET info == index[address]
       IN  IF "raw" \in DOMAIN info
           THEN /\ connectable_info' = Some([info EXCEPT !.connectable = TRUE])
                /\ raised' = FALSE
           ELSE \/ /\ connectable_info' = None
                   /\ raised' = TRUE
                \/ /\ connectable_info' =
                         Some([k \in DOMAIN info \cup {"raw"} |->
                                 IF k = "raw" THEN None
                                 ELSE IF k = "connectable" THEN TRUE ELSE info[k]])
                   /\ raised' = FALSE
    /\ argument' = Some(address)
    /\ op' = "as connectable"
    /\ log' = {}
    /\ result' = None
    /\ notified' = <<>>
    /\ prev_generation' = None
    /\ delivered' = None
    /\ prev_info' = None
    /\ before' = None
    /\ restored' = None
    /\ UNCHANGED <<index, scanning, connecting, last_detection, attempts, manager,
                   timerVars, stall, set_up, data_by_scanner, wall_now, saved>>
    /\ expired' = [a \in DOMAIN expired \ DOMAIN index |-> expired[a]]

(***************************************************************************)
(* Persisted collections read from storage.                                *)
(***************************************************************************)
Scanner2 == <<"s", "c", "2">>

Scanners == {SOURCE, Scanner2}

WallTimes == 0..MaxWall

Hex01 == <<"0", "1">>

Hex0203 == <<"0", "2", "0", "3">>

Hex0A == <<"0", "A">>

HexOdd == <<"0", "1", "2">>

HexNot == <<"0", "g">>

Id76 == <<"7", "6">>

IdNot == <<"7", "x">>

\* a BLEDeviceDict
PersistedDevice(address) ==
    [address |-> address, name |-> Some(NameT), rssi |-> -50, details |-> BaseDetails]

\* an AdvertisementDataDict
PersistedAdvertisement(manufacturer_id, manufacturer_hex, service_hex) ==
    [local_name |-> Some(NameT),
     manufacturer_data |-> [k \in {manufacturer_id} |-> manufacturer_hex],
     service_data |-> [k \in {"180d"} |-> service_hex],
     service_uuids |-> <<"180d">>, rssi |-> -50, tx_power |-> Some(4),
     platform_data |-> <<>>]

EntryVariants ==
    {"ok", "upper", "no rssi", "odd hex", "not hex", "bad id", "no local_name",
     "no name", "no advertisement_data"}

\* a DiscoveredDeviceDict: well-formed ("ok", "upper", "no rssi") or with one
\* structural error
PersistedEntry(address, variant) ==
    LET device == PersistedDevice(address)
        good == PersistedAdvertisement(Id76, Hex01, Hex0203)
    IN  CASE variant = "ok" -> [device |-> device, advertisement_data |-> good]
          [] variant = "upper" ->
                [device |-> device,
                 advertisement_data |-> PersistedAdvertisement(Id76, Hex0A, Hex0203)]
          [] variant = "no rssi" ->
                [device |-> Drop(device, {"rssi"}), advertisement_data |-> good]
          [] variant = "odd hex" ->
                [device |-> device,
                 advertisement_data |-> PersistedAdvertisement(Id76, Hex01, HexOdd)]
          [] variant = "not hex" ->
                [device |-> device,
                 advertisement_data |-> PersistedAdvertisement(Id76, HexNot, Hex0203)]
          [] variant = "bad id" ->
                [device |-> device,
                 advertisement_data |-> PersistedAdvertisement(IdNot, Hex01, Hex0203)]
          [] variant = "no local_name" ->
                [device |-> device, advertisement_data |-> Drop(good, {"local_name"})]
          [] variant = "no name" ->
                [device |-> Drop(device, {"name", "rssi"}), advertisement_data |-> good]
          [] variant = "no advertisement_data" -> [device |-> device]

\* a DiscoveredDeviceAdvertisementDataDict without and with discovered_device_raw
PersistedData(datas, timestamps) ==
    [connectable |-> Connectable, expire_seconds |-> EXPIRE_SECONDS,
     discovered_device_advertisement_datas |-> datas,
     discovered_device_timestamps |-> timestamps]

PersistedDataWithRaw(datas, timestamps, raw) ==
    [connectable |-> Connectable, expire_seconds |-> EXPIRE_SECONDS,
     discovered_device_advertisement_datas |-> datas,
     discovered_device_timestamps |-> timestamps,
     discovered_device_raw |-> raw]

\* snapshots of any age: every address has its data and its timestamp, with
\* or without raw payloads; or Addr2 has data and no timestamp
AgedSnapshots ==
    UNION {UNION {{PersistedData([a \in A |-> PersistedEntry(a, "ok")], ts),
                   PersistedDataWithRaw([a \in A |-> PersistedEntry(a, "ok")], ts,
                                        [a \in A |-> Some(Hex01)])} :
                  ts \in [A -> WallTimes]} : A \in SUBSET Addresses}
    \cup {PersistedData([a \in Addresses |-> PersistedEntry(a, "ok")],
                        [a \in {Addr1} |-> t]) : t \in WallTimes}

\* fresh snapshots, well-formed or not
CodedSnapshots ==
    UNION {{PersistedData(datas, [a \in DOMAIN datas |-> MaxWall - 1]),
            PersistedDataWithRaw(datas, [a \in DOMAIN datas |-> MaxWall - 1],
                                 [a \in {Addr1} |-> None]),
            PersistedDataWithRaw(datas, [a \in DOMAIN datas |-> MaxWall - 1],
                                 [a \in {Addr1} |-> Some(Hex0A)]),
            PersistedDataWithRaw(datas, [a \in DOMAIN datas |-> MaxWall - 1],
                                 [a \in {Addr1} |-> Some(HexOdd)])} :
           datas \in {[a \in {Addr1} |-> PersistedEntry(a, v)] : v \in EntryVariants}
                \cup {[a \in Addresses |-> PersistedEntry(a, IF a = Addr1 THEN v ELSE w)] :
                        v \in EntryVariants, w \in {"ok", "odd hex"}}}
    \cup {Drop(PersistedData([a \in {Addr1} |-> PersistedEntry(a, "ok")],
                             [a \in {Addr1} |-> MaxWall - 1]), {"expire_seconds"})}

\* what storage holds: this scanner's snapshot of any age and possibly the
\* one of a second scanner, or this scanner's fresh snapshot
PersistedCollections ==
    {[s \in {SOURCE} |-> d] : d \in AgedSnapshots \cup CodedSnapshots}
    \cup {[s \in Scanners |-> IF s = SOURCE THEN d
                              ELSE PersistedData([a \in {Addr1} |-> PersistedEntry(a, "ok")],
                                                 [a \in {Addr1} |-> t])] :
            d \in AgedSnapshots, t \in WallTimes}

\* the advertisements of the storage specification
StoreAdvs ==
    {Advertisement(Addr1, -50, Some(NameT), <<"180d">>, [k \in {"180d"} |-> BytesX],
                   [k \in {76} |-> BytesY], Some(4), EmptyDict, 0),
     BareAdv(Addr2)}

\* snapshots in memory handed to discovered_device_advertisement_data_to_dict
MemoryDevice(address, name) == BLEDevice(address, name, BaseDetails, -50)

MemoryAdvertisement(address) ==
    IF address = Addr1
    THEN AdvertisementData(Some(NameT), (76 :> <<1>>) @@ (1023 :> <<>>),
                           [k \in {"180d"} |-> <<10, 255>>], <<"180d">>, Some(4), -50,
                           TupleOf(<<>>))
    ELSE AdvertisementData(None, [k \in {0} |-> <<0, 16>>], EmptyDict, <<>>, None, -60,
                           TupleOf(<<"x">>))

MemorySnapshots ==
    {DiscoveredDeviceAdvertisementData(TRUE, EXPIRE_SECONDS + 1, EmptyDict, EmptyDict,
                                       EmptyDict)}
    \cup {DiscoveredDeviceAdvertisementData(
            Connectable, EXPIRE_SECONDS,
            [a \in A |-> <<MemoryDevice(a, IF a = Addr1 THEN Some(NameT) ELSE None),
                           MemoryAdvertisement(a)>>],
            [a \in A |-> IF a = Addr1 THEN 0 ELSE t],
            raw) :
          A \in {{Addr1}, Addresses}, t \in {0, 1},
          raw \in {EmptyDict, [a \in {Addr1} |-> None],
                   [a \in {Addr1} |-> Some(<<171, 5>>)]}}

\* what storage holds when the codec runs: nothing, this scanner's snapshot
\* with or without the rssi of the device, or one where Addr2 has data and
\* no timestamp
CodecCollections ==
    {EmptyDict}
    \cup {[s \in {SOURCE} |-> PersistedData([a \in {Addr1} |-> PersistedEntry(a, v)],
                                             [a \in {Addr1} |-> MaxWall - 1])] :
          v \in {"ok", "no rssi"}}
    \cup {[s \in {SOURCE} |-> PersistedData([a \in Addresses |-> PersistedEntry(a, "ok")],
                                             [a \in {Addr1} |-> MaxWall - 1])]}

(***************************************************************************)
(* State after BaseHaRemoteScanner.__init__                                *)
(***************************************************************************)
InitScanner ==
    /\ index = EmptyDict
    /\ scanning = TRUE
    /\ connecting = 0
    /\ last_detection = 0
    /\ attempts = [c \in Callers |-> "idle"]
    /\ delivered = None
    /\ prev_info = None
    /\ now = 0
    /\ start_time = 0
    /\ cancel_watchdog = None
    /\ cancel_track = None
    /\ watchdog_timers = 0
    /\ expire_timers = 0
    /\ op = "none"
    /\ stall = Quiet
    /\ set_up = FALSE
    /\ before = None
    /\ restored = None
    /\ wall_now = MaxWall - 1
    /\ log = {}
    /\ argument = None
    /\ result = None
    /\ saved = None
    /\ notified = <<>>
    /\ raised = FALSE
    /\ connectable_info = None
    /\ prev_generation = None
    /\ expired = EmptyDict

\* nothing was read from storage, the coordinator works
Init ==
    /\ InitScanner
    /\ data_by_scanner = EmptyDict
    /\ manager = "ok"

\* a collection was read from storage
InitStorage ==
    /\ InitScanner
    /\ data_by_scanner \in PersistedCollections
    /\ manager = "ok"

(***************************************************************************)
(* One remote scanner: advertisements arrive while callers open and close  *)
(* connection attempts.                                                    *)
(***************************************************************************)
Next ==
    \/ \E adv \in LifeAdvs : OnAdvertisement(adv)
    \/ \E c \in Callers : ConnectingEnter(c)
    \/ \E c \in Callers, failed \in BOOLEAN : ConnectingExit(c, failed)

Spec == Init /\ [][Next]_vars

(***************************************************************************)
(* The scanner lifecycle: setup and teardown, the clock, both timers, one  *)
(* caller of connecting() and the advertisements of one address.           *)
(***************************************************************************)
NextWatchdog ==
    \/ \E adv \in WatchAdvs : OnAdvertisement(adv)
    \/ ConnectingEnter(1)
    \/ \E failed \in BOOLEAN : ConnectingExit(1, failed)
    \/ ClockTick
    \/ AsyncSetup
    \/ Unsetup
    \/ CallScannerWatchdog
    \/ ExpireDevicesScheduleNext

SpecWatchdog == Init /\ [][NextWatchdog]_vars

\* The lifecycle on a running event loop: the clock advances and the loop
\* makes the watchdog call that is pending.
SpecStall ==
    /\ Init
    /\ [][NextWatchdog]_vars
    /\ WF_vars(ClockTick)
    /\ WF_vars(CallScannerWatchdog)

(***************************************************************************)
(* Expiry: two addresses advertise at the current time, the clock          *)
(* advances, the expiry timer runs and snapshots are restored.             *)
(***************************************************************************)
NextExpiry ==
    \/ \E a \in Addresses : OnAdvertisement([BareAdv(a) EXCEPT !.time = now])
    \/ ClockTick
    \/ AsyncSetup
    \/ ExpireDevicesScheduleNext
    \/ \E history \in Histories : RestoreDiscoveredDevices(history)

SpecExpiry == Init /\ [][NextExpiry]_vars

(***************************************************************************)
(* Storage: a collection is loaded, filtered and deserialized, and the     *)
(* index the scanner builds is serialized.                                 *)
(***************************************************************************)
NextStorage ==
    \/ \E adv \in StoreAdvs : OnAdvertisement(adv)
    \/ SerializeDiscoveredDevices
    \/ ExpireStale
    \/ \E scanner \in Scanners : FromDict(scanner)

SpecStorage == InitStorage /\ [][NextStorage]_vars

(***************************************************************************)
(* The codec: snapshots in memory and the serialized index are written to  *)
(* storage, read back and restored, and connectable variants of the        *)
(* records are made.                                                       *)
(***************************************************************************)
InitCodec ==
    /\ InitScanner
    /\ data_by_scanner \in CodecCollections
    /\ manager = "ok"

NextCodec ==
    \/ \E adv \in StoreAdvs : OnAdvertisement(adv)
    \/ SerializeDiscoveredDevices
    \/ \E data \in MemorySnapshots \cup (IF op = "serialize" THEN result ELSE {}) :
          ToDict(data)
    \/ FromDict(SOURCE)
    \/ RestoreLoaded
    \/ \E address \in Addresses : AsConnectable(address)

SpecCodec == InitCodec /\ [][NextCodec]_vars

(***************************************************************************)
(* The scanner with everything that runs on its event loop: advertisements,*)
(* nested connection attempts, the watchdog and expiry timers, and the     *)
(* readers of the index.                                                   *)
(***************************************************************************)
NextScanner ==
    \/ \E adv \in WatchAdvs : OnAdvertisement(adv)
    \/ \E c \in Callers : ConnectingEnter(c)
    \/ \E c \in Callers, failed \in BOOLEAN : ConnectingExit(c, failed)
    \/ ClockTick
    \/ AsyncSetup
    \/ CallScannerWatchdog
    \/ ExpireDevicesScheduleNext
    \/ AsyncDiagnostics
    \/ SerializeDiscoveredDevices

SpecScanner == Init /\ [][NextScanner]_vars

(***************************************************************************)
(* An address is seen with a name, data and details, falls silent until    *)
(* the expiry timer removes its record, and is seen again.                 *)
(***************************************************************************)
\* a complete advertisement at time 0 and bare ones at the current time
ReturnAdvs ==
    {Advertisement(Addr1, -60, Some(NameT), <<"180d">>, [k \in {"180d"} |-> BytesX],
                   [k \in {76} |-> BytesY], Some(4), [k \in {"path"} |-> "hci0"], 0)}
    \cup {[BareAdv(a) EXCEPT !.time = now] : a \in Addresses}
    \cup {[BareAdv(Addr1) EXCEPT !.time = now, !.service_uuids = <<"180f">>,
                                !.local_name = Some(NameS)]}

NextReturn ==
    \/ \E adv \in ReturnAdvs : OnAdvertisement(adv)
    \/ ClockTick
    \/ AsyncSetup
    \/ ExpireDevicesScheduleNext

SpecReturn == Init /\ [][NextReturn]_vars

(***************************************************************************)
(* The advertisement view: advertisements with varying latest-wins fields  *)
(* and containers arrive between reads of the view.                        *)
(***************************************************************************)
ViewAdvs ==
    {[BareAdv(Addr1) EXCEPT !.rssi = r, !.tx_power = p, !.service_uuids = u,
                            !.manufacturer_data = d] :
        r \in Rssis, p \in TxPowers \cup {Some(8)}, u \in {<<>>, <<"180d">>},
        d \in {EmptyDict, [k \in {76} |-> BytesX]}}
    \cup {[BareAdv(Addr1) EXCEPT !.service_data = [k \in {"180d"} |-> b], !.tx_power = Some(4)] :
            b \in {BytesX, BytesY}}

NextView ==
    \/ \E adv \in ViewAdvs : OnAdvertisement(adv)
    \/ \E address \in Addresses : GetDiscoveredDeviceAdvertisementData(address)

SpecView == Init /\ [][NextView]_vars

(***************************************************************************)
(* A coordinator whose scanner_adv_received may raise: advertisements      *)
(* arrive while callers open and close connection attempts.                *)
(***************************************************************************)
\* one address advertising with and without a name at any time
NotifyAdvs ==
    {[BareAdv(Addr1) EXCEPT !.local_name = n, !.time = t] :
        n \in {None, Some(NameT)}, t \in Times}

InitNotify ==
    /\ InitScanner
    /\ data_by_scanner = EmptyDict
    /\ manager = "faulty"

NextNotify ==
    \/ \E adv \in NotifyAdvs : OnAdvertisement(adv)
    \/ \E c \in Callers : ConnectingEnter(c)
    \/ \E c \in Callers, failed \in BOOLEAN : ConnectingExit(c, failed)

SpecNotify == InitNotify /\ [][NextNotify]_vars

(***************************************************************************)
(* The fusion engine alone: advertisements delivered to one scanner,       *)
(* once with the names and latest-wins fields varying, once with the       *)
(* containers varying.                                                     *)
(***************************************************************************)
NextNames == \E adv \in NameAdvs : OnAdvertisement(adv)

SpecNames == Init /\ [][NextNames]_vars

NextData == \E adv \in DataAdvs : OnAdvertisement(adv)

SpecData == Init /\ [][NextData]_vars

(***************************************************************************)
(* Properties.  In a state whose last step delivered an advertisement,     *)
(* Adv is that advertisement, Cur the record now stored for its address,   *)
(* and, when the step was a merge, Prev the record it replaced.            *)
(***************************************************************************)
Adv == Val(delivered)
Cur == index[Adv.address]
Prev == Val(prev_info)
AfterAdvertisement == delivered # None
AfterMerge == delivered # None /\ prev_info # None
InBody == {c \in Callers : attempts[c] = "body"}

\* the stored name of record r is a non-empty name taken from an advertisement
\* (the name its device carries), not the address fallback
HasObservedName(r) == r.name # EmptyStr /\ r.device.name = Some(r.name)

\* C1: name stability.  When a merge meets a record whose stored name is a
\* non-empty observed name and the advertisement's local name is absent, empty
\* or strictly shorter than the stored name, the stored name is unchanged.
C1_NameStability ==
    (/\ AfterMerge
     /\ HasObservedName(Prev)
     /\ \/ ~Truthy(Adv.local_name)
        \/ Len(Val(Adv.local_name)) < Len(Prev.name))
    => Cur.name = Prev.name

\* a two-letter name survived a one-letter local name
C1_Witness ==
    /\ AfterMerge
    /\ HasObservedName(Prev)
    /\ Prev.name = NameTe
    /\ Adv.local_name = Some(NameT)
    /\ Cur.name = NameTe

\* C2: union monotonicity.  After a merge the service UUIDs, the keys of the
\* service data and the keys of the manufacturer data of the stored record
\* each include those of the record it replaced.
C2_UnionMonotonicity ==
    AfterMerge =>
        /\ Range(Prev.service_uuids) \subseteq Range(Cur.service_uuids)
        /\ DOMAIN Prev.service_data \subseteq DOMAIN Cur.service_data
        /\ DOMAIN Prev.manufacturer_data \subseteq DOMAIN Cur.manufacturer_data

\* an advertisement with other manufacturer data and no UUIDs or service data
\* was merged onto a record that has all three
C2_Witness ==
    /\ AfterMerge
    /\ Prev.service_uuids # <<>> /\ Adv.service_uuids = <<>>
    /\ Prev.service_data # EmptyDict /\ Adv.service_data = EmptyDict
    /\ Adv.manufacturer_data # EmptyDict
    /\ DOMAIN Prev.manufacturer_data \ DOMAIN Adv.manufacturer_data # {}
    /\ DOMAIN Adv.manufacturer_data \ DOMAIN Prev.manufacturer_data # {}
    /\ Cur.service_uuids # <<>>

\* the fields merge idempotence compares: all but the timestamp
SameButTime(r1, r2) ==
    /\ r1.name = r2.name
    /\ Range(r1.service_uuids) = Range(r2.service_uuids)
    /\ r1.service_data = r2.service_data
    /\ r1.manufacturer_data = r2.manufacturer_data
    /\ r1.rssi = r2.rssi
    /\ r1.tx_power = r2.tx_power
    /\ r1.connectable = r2.connectable
    /\ r1.device.details = r2.device.details

\* C3: merge idempotence.  Delivering the advertisement just delivered once
\* more stores a record equal to the stored one in everything but the
\* timestamp.
C3_MergeIdempotence ==
    AfterAdvertisement =>
        \A again \in Fused(Lookup(index, Adv.address), Adv) : SameButTime(again, Cur)

\* C4 as stated: when the incoming service data (manufacturer data) is not
\* empty and every pair of the PREVIOUS map appears in the INCOMING map, the
\* merged record keeps the previous map.
C4_SubsetRuleAsStated ==
    AfterMerge =>
        /\ (Adv.service_data # EmptyDict
            /\ _dict_subset(Adv.service_data, Prev.service_data))
           => Cur.service_data = Prev.service_data
        /\ (Adv.manufacturer_data # EmptyDict
            /\ _dict_subset(Adv.manufacturer_data, Prev.manufacturer_data))
           => Cur.manufacturer_data = Prev.manufacturer_data

\* C4 amended: when the incoming service data (manufacturer data) is not
\* empty and every pair of the INCOMING map appears in the PREVIOUS map, the
\* merged record keeps the previous map.
C4_SubsetRule ==
    AfterMerge =>
        /\ (Adv.service_data # EmptyDict
            /\ _dict_subset(Prev.service_data, Adv.service_data))
           => Cur.service_data = Prev.service_data
        /\ (Adv.manufacturer_data # EmptyDict
            /\ _dict_subset(Prev.manufacturer_data, Adv.manufacturer_data))
           => Cur.manufacturer_data = Prev.manufacturer_data

\* both incoming maps were non-empty strict parts of the previous maps, which
\* were kept
C4_Witness ==
    /\ AfterMerge
    /\ Adv.service_data # EmptyDict
    /\ _dict_subset(Prev.service_data, Adv.service_data)
    /\ Adv.service_data # Prev.service_data
    /\ Cur.service_data = Prev.service_data
    /\ Adv.manufacturer_data # EmptyDict
    /\ _dict_subset(Prev.manufacturer_data, Adv.manufacturer_data)
    /\ Adv.manufacturer_data # Prev.manufacturer_data
    /\ Cur.manufacturer_data = Prev.manufacturer_data

\* cur is prev overridden by incoming: incoming pairs, then previous-only
\* pairs, and no other key
Overridden(cur, prev, incoming) ==
    /\ DOMAIN cur = (DOMAIN prev) \cup (DOMAIN incoming)
    /\ \A k \in DOMAIN incoming : cur[k] = incoming[k]
    /\ \A k \in (DOMAIN prev) \ (DOMAIN incoming) : cur[k] = prev[k]
    /\ incoming = EmptyDict => cur = prev

\* C5: after a merge the stored service data and manufacturer data are the
\* previous maps overridden by the incoming ones.
C5_MergedMaps ==
    AfterMerge =>
        /\ Overridden(Cur.service_data, Prev.service_data, Adv.service_data)
        /\ Overridden(Cur.manufacturer_data, Prev.manufacturer_data,
                      Adv.manufacturer_data)

\* the incoming service data changed the value of one key of the previous map
\* and lacked another, which was retained
C5_Witness ==
    /\ AfterMerge
    /\ \E k \in (DOMAIN Prev.service_data) \cap (DOMAIN Adv.service_data) :
          /\ Prev.service_data[k] # Adv.service_data[k]
          /\ Cur.service_data[k] = Adv.service_data[k]
    /\ \E k \in (DOMAIN Prev.service_data) \ (DOMAIN Adv.service_data) :
          Cur.service_data[k] = Prev.service_data[k]

\* C6: after a merge the stored service UUIDs are, as a set, the union of the
\* previous and the incoming ones; the list is the previous list when the
\* incoming one is empty or equal to it, and a list without duplicates when
\* the two were united.
C6_MergedServiceUuids ==
    AfterMerge =>
        /\ Range(Cur.service_uuids) =
              Range(Prev.service_uuids) \cup Range(Adv.service_uuids)
        /\ Adv.service_uuids = <<>> => Cur.service_uuids = Prev.service_uuids
        /\ Adv.service_uuids = Prev.service_uuids
              => Cur.service_uuids = Prev.service_uuids
        /\ (Adv.service_uuids # <<>> /\ Adv.service_uuids # Prev.service_uuids)
              => Len(Cur.service_uuids) = Cardinality(Range(Cur.service_uuids))

\* two different one-element lists were united
C6_Witness ==
    /\ AfterMerge
    /\ Prev.service_uuids = <<"180d">>
    /\ Adv.service_uuids = <<"180f">>
    /\ Range(Cur.service_uuids) = {"180d", "180f"}

\* C7: latest wins.  After every advertisement the stored address, rssi, tx
\* power and timestamp are the advertisement's and the connectable flag is the
\* scanner's, whatever the previous record and its timestamp were.
C7_LatestWins ==
    AfterAdvertisement =>
        /\ Cur.address = Adv.address
        /\ Cur.rssi = Adv.rssi
        /\ Cur.tx_power = Adv.tx_power
        /\ Cur.time = Adv.time
        /\ Cur.connectable = Connectable

\* an advertisement older than the stored record replaced its rssi, tx power
\* and timestamp
C7_Witness ==
    /\ AfterMerge
    /\ Adv.time < Prev.time
    /\ Adv.rssi # Prev.rssi
    /\ Adv.tx_power # Prev.tx_power
    /\ Cur.time = Adv.time /\ Cur.rssi = Adv.rssi /\ Cur.tx_power = Adv.tx_power

\* C8: liveness signal.  After every advertisement scanning is
\* (connecting = 0) and the last detection time is the advertisement's
\* timestamp.
C8_LivenessSignal ==
    AfterAdvertisement =>
        /\ scanning = (connecting = 0)
        /\ last_detection = Adv.time

\* an advertisement was merged while a connection attempt was open
C8_Witness ==
    /\ AfterMerge
    /\ connecting > 0
    /\ ~scanning
    /\ Adv.time # 0
    /\ last_detection = Adv.time

\* C9: connecting gate balance.  The counter is the number of callers inside
\* a connecting() block, never negative, and 0 when every caller has left,
\* whether normally or by a failure.
C9_GateBalance ==
    /\ connecting = Cardinality(InBody)
    /\ connecting >= 0
    /\ InBody = {} => connecting = 0

\* a nested attempt failed while the outer one is still open
C9_Witness ==
    /\ \E c \in Callers : attempts[c] = "failed"
    /\ InBody # {}
    /\ connecting = Cardinality(InBody)

\* C10: connecting gate flag.  Entering connecting() leaves scanning false;
\* every exit, normal or failed, leaves scanning = (connecting = 0), so it is
\* false while another attempt is open.
C10_GateFlag ==
    [][/\ \A c \in Callers : ConnectingEnter(c) => ~scanning'
       /\ \A c \in Callers, failed \in BOOLEAN :
             ConnectingExit(c, failed) =>
                /\ scanning' = (connecting' = 0)
                /\ (InBody \ {c} # {}) => ~scanning']_vars

\* every attempt has left, one of them by failure, and the last exit set
\* scanning again
C10_Witness ==
    /\ \E c \in Callers : attempts[c] = "failed"
    /\ InBody = {}
    /\ delivered = None
    /\ connecting = 0
    /\ scanning

(***************************************************************************)
(* Claims about the watchdog, setup and teardown (SpecWatchdog).           *)
(***************************************************************************)
\* C11: watchdog tick.  A tick with now - last detection strictly above the
\* timeout leaves scanning false; any other tick, the one at exactly the
\* timeout included, leaves scanning = (connecting = 0).  The tick leaves
\* connecting, the last detection time and the index as they were.
C11_WatchdogTick ==
    [][op' = "watchdog" =>
          /\ (now - last_detection > SCANNER_WATCHDOG_TIMEOUT) => ~scanning'
          /\ (now - last_detection <= SCANNER_WATCHDOG_TIMEOUT) =>
                (scanning' = (connecting = 0))
          /\ UNCHANGED <<connecting, last_detection, index>>]_vars

\* a tick exactly at the timeout found no attempt open and left scanning true
C11_Witness ==
    /\ op = "watchdog"
    /\ now - last_detection = SCANNER_WATCHDOG_TIMEOUT
    /\ connecting = 0
    /\ index # EmptyDict
    /\ scanning

C13_Teardown ==
    /\ [][~set_up => op' \notin {"watchdog", "expire"}]_vars
    /\ [][(~set_up /\ op' = "teardown") =>
             UNCHANGED <<index, scanning, connecting, last_detection, attempts,
                         timerVars>>]_vars
    /\ [](ENABLED Unsetup)

\* torn down after a setup made at a time later than 0: no timer is left
C13_Witness ==
    /\ op = "teardown"
    /\ ~set_up
    /\ start_time > 0
    /\ watchdog_timers = 0
    /\ expire_timers = 0
    /\ cancel_watchdog = None
    /\ cancel_track = None

\* C14: setup.  Right after async_setup the start time and the last
\* detection time are the time of the call and a watchdog timer is pending;
\* the watchdog timer is pending again after each of its ticks; the teardown
\* handle leaves no timer of the scanner pending.
C14_Setup ==
    /\ [](op = "setup" =>
             /\ start_time = now
             /\ last_detection = now
             /\ cancel_watchdog = Some("pending")
             /\ watchdog_timers = 1)
    /\ [](op = "watchdog" => (cancel_watchdog = Some("pending") /\ watchdog_timers = 1))
    /\ [][op' = "teardown" => (watchdog_timers' = 0 /\ expire_timers' = 0)]_vars

\* set up at a time later than 0, with an advertisement of another time
\* recorded before
C14_Witness ==
    /\ op = "setup"
    /\ now > 0
    /\ start_time = now
    /\ last_detection = now
    /\ index # EmptyDict
    /\ watchdog_timers = 1
    /\ expire_timers = 1


(***************************************************************************)
(* Claims about expiry and restore (SpecExpiry).                           *)
(***************************************************************************)
\* C15: live expiry boundary.  After an expiry pass at time now the index
\* holds exactly the records it held before whose age now - time is at most
\* the expiry window, each of them as it was; a record aged exactly the
\* window is kept.
C15_ExpiryBoundary ==
    op = "expire" =>
        LET was == Val(before)
        IN  /\ DOMAIN index = {a \in DOMAIN was : now - was[a].time <= EXPIRE_SECONDS}
            /\ \A a \in DOMAIN index : index[a] = was[a]

\* a pass that kept a record aged exactly the window and removed an older one
C15_Witness ==
    /\ op = "expire"
    /\ \E a \in DOMAIN index : now - index[a].time = EXPIRE_SECONDS
    /\ \E a \in DOMAIN Val(before) :
          a \notin DOMAIN index /\ now - Val(before)[a].time > EXPIRE_SECONDS

\* C16: restore never exposes stale entries.  Right after
\* restore_discovered_devices returns, the index holds exactly the addresses
\* of the snapshot whose restored timestamp is no older than the expiry
\* window, each with the timestamp of the snapshot; addresses the index held
\* before and the snapshot does not hold are gone.
C16_RestoreFresh ==
    op = "restore" =>
        LET history == Val(restored)
            datas == history.discovered_device_advertisement_datas
            timestamps == history.discovered_device_timestamps
        IN  /\ DOMAIN index = {a \in DOMAIN datas : now - timestamps[a] <= EXPIRE_SECONDS}
            /\ \A a \in DOMAIN index :
                  /\ index[a].time = timestamps[a]
                  /\ now - index[a].time <= EXPIRE_SECONDS
            /\ \A a \in DOMAIN Val(before) : a \notin DOMAIN datas => a \notin DOMAIN index

\* a restore over an index that held another address: the snapshot's record
\* aged exactly the window is readable, its older one and the address the
\* snapshot does not hold are not
C16_Witness ==
    /\ op = "restore"
    /\ Addr1 \in DOMAIN index
    /\ now - index[Addr1].time = EXPIRE_SECONDS
    /\ Addr2 \in DOMAIN Val(before)
    /\ Addr2 \notin DOMAIN index


(***************************************************************************)
(* Claims about the storage codec (SpecStorage).                           *)
(***************************************************************************)
\* the collection the last expire-on-load pass was given
Loaded == Val(argument)

\* the addresses of a persisted snapshot whose timestamp is neither older
\* than expire_seconds nor in the future at wall-clock time t
Retained(data, t) ==
    {a \in DOMAIN data.discovered_device_timestamps :
        /\ 0 <= t - data.discovered_device_timestamps[a]
        /\ t - data.discovered_device_timestamps[a] <= data.expire_seconds}

\* C17: expire-on-load filter.  After the pass at wall-clock time now, every
\* scanner of the collection has lost exactly the addresses with
\* now - timestamp > expire_seconds or timestamp > now, a warning was logged
\* for each address with timestamp > now, and each address with
\* 0 <= now - timestamp <= expire_seconds still has its timestamp, its data
\* and its raw payload as they were.
C17_ExpireOnLoad ==
    op = "expire stale" =>
        \A s \in DOMAIN Loaded :
            LET old == Loaded[s]
                ts == old.discovered_device_timestamps
                removed == {a \in DOMAIN ts :
                               wall_now - ts[a] > old.expire_seconds \/ ts[a] > wall_now}
                left == IF s \in DOMAIN data_by_scanner
                        THEN DOMAIN data_by_scanner[s].discovered_device_timestamps
                        ELSE {}
            IN  /\ left = DOMAIN ts \ removed
                /\ left = Retained(old, wall_now)
                /\ \A a \in DOMAIN ts : ts[a] > wall_now => <<"warning", s, a>> \in log
                /\ \A a \in left :
                      /\ data_by_scanner[s].discovered_device_timestamps[a] = ts[a]
                      /\ data_by_scanner[s].discovered_device_advertisement_datas[a]
                            = old.discovered_device_advertisement_datas[a]
                      /\ a \in DOMAIN RawOf(old) =>
                            RawOf(data_by_scanner[s])[a] = RawOf(old)[a]

\* a pass that kept an address aged exactly expire_seconds with its raw
\* payload, removed an older one and discarded a future one with a warning
C17_Witness ==
    /\ op = "expire stale"
    /\ SOURCE \in DOMAIN data_by_scanner
    /\ \E a \in DOMAIN data_by_scanner[SOURCE].discovered_device_timestamps :
          /\ wall_now - data_by_scanner[SOURCE].discovered_device_timestamps[a]
                = data_by_scanner[SOURCE].expire_seconds
          /\ a \in DOMAIN RawOf(data_by_scanner[SOURCE])
    /\ \E a \in DOMAIN Loaded[SOURCE].discovered_device_timestamps :
          wall_now - Loaded[SOURCE].discovered_device_timestamps[a]
             > Loaded[SOURCE].expire_seconds
    /\ \E s \in DOMAIN Loaded, a \in Addresses : <<"warning", s, a>> \in log

\* C18: scanner drop.  After the pass the collection holds a scanner's key
\* exactly when one of its addresses was retained; no key is added, and a
\* scanner that stays has its own entry, cut down to its retained addresses,
\* whatever happened to the other scanners.
C18_ScannerDrop ==
    op = "expire stale" =>
        /\ DOMAIN data_by_scanner \subseteq DOMAIN Loaded
        /\ \A s \in DOMAIN Loaded :
              /\ s \in DOMAIN data_by_scanner <=> Retained(Loaded[s], wall_now) # {}
              /\ s \in DOMAIN data_by_scanner =>
                    /\ DOMAIN data_by_scanner[s] = DOMAIN Loaded[s]
                    /\ data_by_scanner[s].connectable = Loaded[s].connectable
                    /\ data_by_scanner[s].expire_seconds = Loaded[s].expire_seconds
                    /\ data_by_scanner[s].discovered_device_timestamps
                          = [a \in Retained(Loaded[s], wall_now) |->
                                Loaded[s].discovered_device_timestamps[a]]

\* this scanner had addresses, all expired or future-dated, and is gone; the
\* second scanner is there as it was loaded
C18_Witness ==
    /\ op = "expire stale"
    /\ DOMAIN Loaded = Scanners
    /\ Loaded[SOURCE].discovered_device_timestamps # EmptyDict
    /\ \E a \in DOMAIN Loaded[SOURCE].discovered_device_timestamps :
          Loaded[SOURCE].discovered_device_timestamps[a] > wall_now
    /\ DOMAIN data_by_scanner = {Scanner2}
    /\ data_by_scanner[Scanner2] = Loaded[Scanner2]

\* the timestamp map and the advertisement-data map have the same addresses
SameKeys(data) ==
    DOMAIN data.discovered_device_timestamps
        = DOMAIN data.discovered_device_advertisement_datas

\* C19: snapshot key-set invariant.  The snapshot serialize_discovered_devices
\* returns has the same addresses in its timestamp map and in its
\* advertisement-data map; a per-scanner snapshot that had this before the
\* expire-on-load pass has it after the pass, and holds no raw payload for
\* an address the pass removed.
C19_SnapshotKeys ==
    /\ op = "serialize" => SameKeys(Val(result))
    /\ op = "expire stale" =>
          \A s \in DOMAIN data_by_scanner :
              /\ SameKeys(Loaded[s]) => SameKeys(data_by_scanner[s])
              /\ \A a \in DOMAIN RawOf(data_by_scanner[s]) :
                    a \in DOMAIN data_by_scanner[s].discovered_device_timestamps
                    \/ a \notin DOMAIN Loaded[s].discovered_device_timestamps

\* the index was serialized with both addresses in it, and a pass then
\* removed an address that had a raw payload from a snapshot that keeps
\* another
C19_Witness ==
    /\ op = "expire stale"
    /\ DOMAIN index = Addresses
    /\ \A a \in DOMAIN index : index[a].advertisement # None
    /\ SOURCE \in DOMAIN data_by_scanner
    /\ SameKeys(Loaded[SOURCE])
    /\ DOMAIN RawOf(Loaded[SOURCE]) = Addresses
    /\ Cardinality(DOMAIN data_by_scanner[SOURCE].discovered_device_timestamps) = 1

\* an entry of the advertisement-data map with a structural error: a missing
\* field, a hexadecimal string of odd length or with another character, a
\* manufacturer id that is not a number
StructuralError(entry) ==
    \/ ~({"device", "advertisement_data"} \subseteq DOMAIN entry)
    \/ ~({"address", "name", "details"} \subseteq DOMAIN entry.device)
    \/ ~(AdvertisementDataKeys \subseteq DOMAIN entry.advertisement_data)
    \/ \E h \in Range(entry.advertisement_data.service_data)
               \cup Range(entry.advertisement_data.manufacturer_data) :
          Len(h) % 2 = 1 \/ \E i \in DOMAIN h : ~IsHexDigit(h[i])
    \/ \E k \in DOMAIN entry.advertisement_data.manufacturer_data :
          \E i \in DOMAIN k : ~IsDigit(k[i])

\* C20: all-or-nothing deserialization.  from_dict returns None with an error
\* logged, or a snapshot that holds every address of the input, each with
\* its device and its decoded advertisement data; it returns None whenever
\* an address has a structural error.
C20_AllOrNothing ==
    op = "from dict" =>
        LET data == Val(argument)
            datas == data.discovered_device_advertisement_datas
        IN  /\ result = None => (\E s \in Scanners : <<"error", s>> \in log)
            /\ (\E a \in DOMAIN datas : StructuralError(datas[a])) => result = None
            /\ result # None =>
                  /\ log = {}
                  /\ DOMAIN Val(result).discovered_device_advertisement_datas = DOMAIN datas
                  /\ \A a \in DOMAIN datas :
                        LET device == Val(result).discovered_device_advertisement_datas[a][1]
                            adv == Val(result).discovered_device_advertisement_datas[a][2]
                            from == datas[a].advertisement_data
                        IN  /\ device.address = datas[a].device.address
                            /\ device.name = datas[a].device.name
                            /\ device.details = datas[a].device.details
                            /\ adv.local_name = from.local_name
                            /\ adv.rssi = from.rssi
                            /\ adv.service_uuids = from.service_uuids
                            /\ DOMAIN adv.service_data = DOMAIN from.service_data
                            /\ \A k \in DOMAIN from.service_data :
                                  Some(adv.service_data[k]) = FromHex(from.service_data[k])
                            /\ \A k \in DOMAIN from.manufacturer_data :
                                  Some(adv.manufacturer_data[Val(ParseInt(k))])
                                     = FromHex(from.manufacturer_data[k])

\* the input holds a well-formed address and one with a hexadecimal string of
\* odd length: nothing is returned and the error is logged
C20_Witness ==
    /\ op = "from dict"
    /\ result = None
    /\ log # {}
    /\ DOMAIN Val(argument).discovered_device_advertisement_datas = Addresses
    /\ ~StructuralError(Val(argument).discovered_device_advertisement_datas[Addr1])
    /\ StructuralError(Val(argument).discovered_device_advertisement_datas[Addr2])



(***************************************************************************)
(* Claims about the codec.                                                 *)
(***************************************************************************)
\* the snapshot whose to_dict image storage holds for this scanner
SavedSnapshot == Val(saved).snapshot

\* from_dict has just read the image of a snapshot to_dict wrote
ReadBack == op = "from dict" /\ saved # None /\ argument = Some(data_by_scanner[SOURCE])

\* C21: snapshot round trip.  Deserializing the dict a snapshot serializes
\* to yields a snapshot with the same connectable flag, the same
\* expire_seconds, the same addresses, for each address the same device
\* address, name and details and the same advertisement fields (local name,
\* manufacturer data under its integer keys, service data, service UUIDs,
\* rssi, tx power, platform data), and the same raw payloads.
C21_SnapshotRoundTrip ==
    ReadBack =>
        /\ result # None
        /\ LET s == SavedSnapshot
               r == Val(result)
               sd == s.discovered_device_advertisement_datas
               rd == r.discovered_device_advertisement_datas
           IN  /\ r.connectable = s.connectable
               /\ r.expire_seconds = s.expire_seconds
               /\ DOMAIN rd = DOMAIN sd
               /\ \A a \in DOMAIN sd :
                     /\ rd[a][1].address = sd[a][1].address
                     /\ rd[a][1].name = sd[a][1].name
                     /\ rd[a][1].details = sd[a][1].details
                     /\ rd[a][2] = sd[a][2]
               /\ r.discovered_device_raw = s.discovered_device_raw

\* a snapshot of two addresses with a byte below 16, an empty payload, a
\* three-digit manufacturer id and a raw payload was read back
C21_Witness ==
    /\ ReadBack
    /\ result # None
    /\ DOMAIN SavedSnapshot.discovered_device_advertisement_datas = Addresses
    /\ Val(result).discovered_device_advertisement_datas[Addr1][2].manufacturer_data
         = (76 :> <<1>>) @@ (1023 :> <<>>)
    /\ Val(result).discovered_device_advertisement_datas[Addr2][2].platform_data
         = TupleOf(<<"x">>)
    /\ Val(result).discovered_device_raw = [a \in {Addr1} |-> Some(<<171, 5>>)]


\* the index serialize_discovered_devices read for the snapshot storage holds
SavedIndex == Val(Val(saved).index)

\* the snapshot of the index went through to_dict and from_dict and was restored
RestoredFromStorage == op = "restore" /\ saved # None /\ Val(saved).index # None

\* the raw payload of a record, None where the slot was never assigned
RawPayload(info) == IF "raw" \in DOMAIN info THEN info.raw ELSE None

\* C22: index round trip.  Serializing the index, converting the snapshot
\* with to_dict and from_dict and restoring it on a scanner with the same
\* source and connectable flag yields an index with the same addresses and,
\* for each address, the same name, rssi, tx power (an absent tx power
\* included), service UUIDs, service data, manufacturer data, raw payload
\* and timestamp.
C22_IndexRoundTrip ==
    RestoredFromStorage =>
        /\ DOMAIN index = DOMAIN SavedIndex
        /\ \A a \in DOMAIN index :
              /\ index[a].name = SavedIndex[a].name
              /\ index[a].rssi = SavedIndex[a].rssi
              /\ index[a].tx_power = SavedIndex[a].tx_power
              /\ index[a].service_uuids = SavedIndex[a].service_uuids
              /\ index[a].service_data = SavedIndex[a].service_data
              /\ index[a].manufacturer_data = SavedIndex[a].manufacturer_data
              /\ RawPayload(index[a]) = RawPayload(SavedIndex[a])
              /\ index[a].time = SavedIndex[a].time


\* to_dict has just written the image of a snapshot
Written == op = "to dict" /\ saved # None

\* the timestamps of b relate to the timestamps of a as if one offset had
\* been added to every address
SameOffset(a, b) ==
    /\ DOMAIN b = DOMAIN a
    /\ \A x, y \in DOMAIN a : b[x] - b[y] = a[x] - a[y]

\* C23: one clock offset a call.  Within one serialization call and within
\* one deserialization call the same offset is applied to the timestamp of
\* every address: the differences between timestamps, hence their order,
\* are the ones of the input, and the timestamp map has the same addresses.
C23_OneOffset ==
    /\ Written =>
          SameOffset(SavedSnapshot.discovered_device_timestamps,
                     data_by_scanner[SOURCE].discovered_device_timestamps)
    /\ (op = "from dict" /\ result # None) =>
          SameOffset(Val(argument).discovered_device_timestamps,
                     Val(result).discovered_device_timestamps)

\* two addresses with different timestamps were written, and were read back
\* with an offset that is not zero
C23_Witness ==
    /\ ReadBack
    /\ result # None
    /\ DOMAIN Val(result).discovered_device_timestamps = Addresses
    /\ Val(result).discovered_device_timestamps[Addr1]
         # Val(result).discovered_device_timestamps[Addr2]
    /\ Val(argument).discovered_device_timestamps[Addr1]
         # Val(result).discovered_device_timestamps[Addr1]


\* a persisted snapshot without the rssi of its devices
WithoutDeviceRssi(data) ==
    [data EXCEPT !.discovered_device_advertisement_datas =
        [a \in DOMAIN @ |-> [@[a] EXCEPT !.device = Drop(@, {"rssi"})]]]

\* C24: device rssi compatibility.  A persisted snapshot whose devices carry
\* an rssi deserializes to what the same snapshot without it deserializes
\* to, and the persisted record is the same after the call; serialization
\* writes for every device an rssi equal to the rssi of its advertisement
\* data.
C24_DeviceRssi ==
    /\ op = "from dict" =>
          /\ result = Deserialized(WithoutDeviceRssi(Val(argument)), wall_now - now)
          /\ data_by_scanner[SOURCE] = Val(argument)
    /\ Written =>
          \A a \in DOMAIN data_by_scanner[SOURCE].discovered_device_advertisement_datas :
             LET entry == data_by_scanner[SOURCE].discovered_device_advertisement_datas[a]
             IN  /\ entry.device.rssi = entry.advertisement_data.rssi
                 /\ entry.device.rssi =
                      SavedSnapshot.discovered_device_advertisement_datas[a][2].rssi

\* a snapshot whose devices carry the rssi of their advertisement data
\* (not the one of the device in memory) was read and decoded
C24_Witness ==
    /\ ReadBack
    /\ result # None
    /\ Addr2 \in DOMAIN Val(argument).discovered_device_advertisement_datas
    /\ Val(argument).discovered_device_advertisement_datas[Addr2].device.rssi = -60
    /\ SavedSnapshot.discovered_device_advertisement_datas[Addr2][1].rssi = -50
    /\ "rssi" \notin DOMAIN Val(result).discovered_device_advertisement_datas[Addr2][1]


(***************************************************************************)
(* Claims about the notification of the coordinator.                       *)
(***************************************************************************)
\* C25: notification after the store.  Every advertisement causes exactly
\* one notification of the coordinator (and no other step causes one); it
\* carries the fused record the index holds for the address; and when the
\* coordinator fails, the stored record is still the fusion of the previous
\* record with the advertisement, scanning is still "no attempt in
\* progress" and the last detection time is still the advertisement's.
C25_NotifyAfterStore ==
    /\ delivered = None => notified = <<>>
    /\ delivered # None =>
          /\ Len(notified) = 1
          /\ notified[1] = index[Adv.address]
          /\ raised =>
                /\ index[Adv.address] \in Fused(prev_info, Adv)
                /\ scanning = (connecting = 0)
                /\ last_detection = Adv.time

\* the coordinator failed on an advertisement merged into a prior record
\* while an attempt was in progress
C25_Witness ==
    /\ delivered # None
    /\ raised
    /\ prev_info # None
    /\ connecting > 0
    /\ notified = <<index[Adv.address]>>
    /\ Cur # Val(prev_info)

\* C26: contained notification failure.  When the notification of the
\* coordinator fails, the advertisement handler completes normally: the
\* failure does not reach the transport that delivered the advertisement.
C26_FailureContained ==
    delivered # None => ~raised


(***************************************************************************)
(* Claims about the readers of the index, the watchdog and the gate.       *)
(***************************************************************************)
\* what a reader of a record observes, the memoized advertisement view aside
Observed(info) ==
    [name |-> info.name, rssi |-> info.rssi, tx_power |-> info.tx_power,
     time |-> info.time, service_uuids |-> info.service_uuids,
     service_data |-> info.service_data, manufacturer_data |-> info.manufacturer_data]

\* C27: readers leave the scanner alone.  Taking the diagnostics snapshot or
\* serializing the index leaves the addresses of the index, every record's
\* name, rssi, tx power, timestamp, service UUIDs, service data and
\* manufacturer data, and scanning, the connecting depth, the last detection
\* time and the start time as they were.
C27_ReadersFrame ==
    [][(AsyncDiagnostics \/ SerializeDiscoveredDevices) =>
          /\ DOMAIN index' = DOMAIN index
          /\ \A a \in DOMAIN index : Observed(index'[a]) = Observed(index[a])
          /\ scanning' = scanning
          /\ connecting' = connecting
          /\ last_detection' = last_detection
          /\ start_time' = start_time]_vars

\* the diagnostics were taken of a record without tx power whose
\* advertisement view had not been built before
C27_Witness ==
    /\ op = "diagnostics"
    /\ Addr1 \in DOMAIN index
    /\ Val(before)[Addr1].advertisement = None
    /\ index[Addr1].advertisement # None
    /\ index[Addr1].tx_power = None
    /\ Val(index[Addr1].advertisement).tx_power = Some(NO_RSSI_VALUE)

\* C29: a stall stands until an advertisement.  Once a watchdog tick has set
\* scanning to false because of a stall, scanning stays false in every step
\* that is not the arrival of an advertisement; entering and leaving
\* connecting() in particular do not set it back.
C29_StallStands ==
    [][(stall.phase = "stalled" /\ ~scanning /\ delivered' = None) => ~scanning']_vars

\* C30: scanning only outside attempts.  In every reachable state, under
\* any interleaving of advertisements, watchdog ticks, expiry ticks and
\* entries to and exits from connecting(), scanning implies that the
\* connecting depth is zero.
C30_ScanningOutsideAttempts ==
    scanning => connecting = 0

\* scanning is reported after a watchdog tick that found no stall, with
\* every attempt finished, one of them by failure
C30_Witness ==
    /\ scanning
    /\ op = "watchdog"
    /\ connecting = 0
    /\ \E c \in Callers : attempts[c] = "failed"


\* C28: connectable variant.  For every record of the index, built by a
\* merge or by a restore, making the connectable variant succeeds; the
\* variant equals the record in every field, the raw payload included,
\* except that it is connectable; and the record itself is as it was.
C28_ConnectableVariant ==
    op = "as connectable" =>
        /\ ~raised
        /\ connectable_info # None
        /\ LET info == index[Val(argument)]
               new_obj == Val(connectable_info)
           IN  /\ new_obj.connectable
               /\ RawPayload(new_obj) = RawPayload(info)
               /\ Drop(new_obj, {"connectable", "raw"}) = Drop(info, {"connectable", "raw"})
               /\ info.connectable = Connectable


(***************************************************************************)
(* Claims about names, generations and the identity object.                *)
(***************************************************************************)
\* the name an advertisement gives a record: its local name, or the address
\* when the local name is absent or empty
IncomingName(adv) == IF Truthy(adv.local_name) THEN Val(adv.local_name) ELSE adv.address

\* C31: the stored name is never empty.  After any sequence of
\* advertisements for an address, with local names absent, empty or not,
\* the name of the stored record is a non-empty string: the address, or a
\* non-empty local name an advertisement carried (the one just delivered, or
\* the one the record already had).
C31_NameNeverEmpty ==
    /\ \A a \in DOMAIN index : index[a].name # EmptyStr
    /\ AfterAdvertisement =>
          \/ Cur.name = Adv.address
          \/ Truthy(Adv.local_name) /\ Cur.name = Val(Adv.local_name)
          \/ prev_info # None /\ Cur.name = Prev.name

\* C32: name adoption.  On a merge where the keep condition does not hold
\* (the previous name is empty or absent, or the incoming name is non-empty,
\* not shorter than the previous name and not the identical unchanged
\* value) the stored name becomes the incoming name, or the address when the
\* incoming name is empty or absent.
C32_NameAdoption ==
    (/\ AfterMerge
     /\ \/ ~Truthy(Prev.device.name)
        \/ /\ Truthy(Adv.local_name)
           /\ Len(Val(Adv.local_name)) >= Len(Val(Prev.device.name))
           /\ Adv.local_name # Prev.device.name)
    => Cur.name = IncomingName(Adv)


\* C34: immutability of earlier generations.  A merge changes neither the
\* previous record object for the address nor the containers it holds: the
\* previous generation's name, rssi, tx power, timestamp, service UUIDs,
\* service data and manufacturer data are what they were before; the one
\* thing changed in place is the device identity object it shares with the
\* new record.
C34_EarlierGenerations ==
    AfterMerge =>
        /\ Observed(Val(prev_generation)) = Observed(Prev)
        /\ Drop(Val(prev_generation), {"device"}) = Drop(Prev, {"device"})
        /\ Val(prev_generation).device = Cur.device

\* a merge stored other service data and another name than the previous
\* generation holds, and changed the shared device
C34_Witness ==
    /\ AfterMerge
    /\ Cur.service_data # Prev.service_data
    /\ Cur.name # Prev.name
    /\ Val(prev_generation).service_data = Prev.service_data
    /\ Val(prev_generation).device # Prev.device

\* C35: identity annotations.  A merge reuses the device identity object of
\* the previous record, and the details of the device are the scanner's
\* base details overridden by the details of each advertisement in delivery
\* order: a first sighting overrides the base details, every merge overrides
\* the details the device had, and no key is ever removed.
C35_IdentityAnnotations ==
    /\ AfterMerge =>
          /\ Cur.device.address = Prev.device.address
          /\ Val(prev_generation).device = Cur.device
          /\ Overridden(Cur.device.details, Prev.device.details, Adv.details)
    /\ (AfterAdvertisement /\ prev_info = None) =>
          Overridden(Cur.device.details, BaseDetails, Adv.details)

\* a merge overrode a key the device already had and kept another
C35_Witness ==
    /\ AfterMerge
    /\ \E k \in DOMAIN Adv.details :
          k \in DOMAIN Prev.device.details /\ Adv.details[k] # Prev.device.details[k]
    /\ \E k \in DOMAIN Prev.device.details : k \notin DOMAIN Adv.details


\* C33: first sighting, also after expiry.  An address the expiry timer
\* removed has no record until an advertisement for it arrives; and when
\* the index holds no record for the address of an advertisement, never
\* seen or expired, the stored record is built from the incoming fields
\* only: the name is the local name, or the address when it is absent, the
\* service UUIDs, service data and manufacturer data are the incoming ones
\* and the details are the base details overridden by the incoming ones.
C33_FirstSighting ==
    /\ \A a \in DOMAIN expired :
          a \in DOMAIN index => (AfterAdvertisement /\ Adv.address = a /\ prev_info = None)
    /\ (AfterAdvertisement /\ prev_info = None) =>
          /\ Cur.name = IncomingName(Adv)
          /\ Cur.service_uuids = Adv.service_uuids
          /\ Cur.service_data = Adv.service_data
          /\ Cur.manufacturer_data = Adv.manufacturer_data
          /\ Overridden(Cur.device.details, BaseDetails, Adv.details)
          /\ Cur.device.name = Adv.local_name

\* a record with a name, data and details expired, and a bare advertisement
\* for its address was stored
C33_Witness ==
    /\ AfterAdvertisement
    /\ prev_info = None
    /\ Adv.address \in DOMAIN expired
    /\ expired[Adv.address].name = NameT
    /\ expired[Adv.address].service_data # EmptyDict
    /\ "path" \in DOMAIN expired[Adv.address].details
    /\ Cur.name = Adv.address
    /\ Cur.service_data = EmptyDict
    /\ Cur.device.details = BaseDetails


(***************************************************************************)
(* Claims about the advertisement view, the timers and the load.           *)
(***************************************************************************)
\* C36: advertisement view freshness.  The view
\* get_discovered_device_advertisement_data returns for an address carries
\* the rssi, tx power, service UUIDs, service data and manufacturer data the
\* stored record has now, never those of an earlier generation; it is the
\* view the record holds from then on, and a read that finds a view in the
\* record returns that view.
C36_ViewFreshness ==
    (op = "get advertisement" /\ result # None) =>
        LET address == Val(argument)
            info == index[address]
            view == Val(result)[2]
        IN  /\ view.rssi = info.rssi
            /\ view.tx_power = info.tx_power
            /\ view.service_uuids = info.service_uuids
            /\ view.service_data = info.service_data
            /\ view.manufacturer_data = info.manufacturer_data
            /\ info.advertisement = Some(view)
            /\ Val(before)[address].advertisement # None =>
                  Val(before)[address].advertisement = Some(view)

\* C37: timer uniqueness.  Whatever setup calls (repeated ones included),
\* teardown calls and timer calls have been made, at most one watchdog call
\* and at most one expiry call are pending; while the scanner is set up and
\* not torn down, exactly one of each is pending, after every timer call too.
C37_TimerUniqueness ==
    /\ watchdog_timers <= 1
    /\ expire_timers <= 1
    /\ set_up => (watchdog_timers = 1 /\ expire_timers = 1)

\* a timer call made at a later time than the setup, the scanner still set up
C37_Witness ==
    /\ op \in {"watchdog", "expire"}
    /\ set_up
    /\ now > start_time
    /\ watchdog_timers = 1
    /\ expire_timers = 1
    /\ cancel_watchdog = Some("pending")
    /\ cancel_track = Some("pending")

\* C38: fail-soft load.  For every persisted snapshot, one whose data map
\* holds an address its timestamp map lacks included, either from_dict
\* returns None or restore_discovered_devices on the snapshot it returned
\* completes without an exception.
C38_FailSoftLoad ==
    op \in {"restore", "restore raised"} => ~raised

\* the scanner is set up and the clock can still pass the watchdog timeout
\* of the last detection
C39_CanStall ==
    set_up /\ last_detection + SCANNER_WATCHDOG_TIMEOUT < MaxNow

\* C39: stall detection liveness.  Once the scanner is set up, and unless an
\* advertisement is delivered or the scanner is set up again or torn down,
\* a watchdog tick eventually sets scanning to false; and every tick after
\* the one that found the stall, with no advertisement and no setup since,
\* sets scanning to false again.
C39_StallDetected ==
    /\ C39_CanStall ~> \/ op = "watchdog" /\ ~scanning
                       \/ delivered # None
                       \/ op \in {"setup", "teardown"}
    /\ [][(/\ stall.phase = "stalled"
           /\ stall.time - last_detection > SCANNER_WATCHDOG_TIMEOUT
           /\ delivered' = None
           /\ op' = "watchdog") => ~scanning']_vars

\* a watchdog tick of the scanner that is set up has found the stall and set
\* scanning to false, with no attempt to connect under way
C39_Witness ==
    /\ op = "watchdog"
    /\ ~scanning
    /\ set_up
    /\ connecting = 0
    /\ stall = [phase |-> "stalled", time |-> now]
    /\ now - last_detection > SCANNER_WATCHDOG_TIMEOUT

====
